---- MODULE Spec2Model ----
(***************************************************************************)
(* A model of the transformation core of video-digest:                     *)
(*   analyzer._chunk_transcript        (character-budget chunking)         *)
(*   transcriber.merge_segments        (window merging)                    *)
(*   frame_extractor._select_candidates / extract_frames (sampling, dedup) *)
(*   analyzer._escape_json_strings / _parse_json_response (JSON repair)    *)
(* Each component has its own specification (SpecChunk, SpecMerge, ...)    *)
(* over its own variables; the other components' variables stay idle.      *)
(* A Segment is a record [start, end, text]; times are integers (one unit  *)
(* of the source's float seconds), texts are strings.                      *)
(***************************************************************************)
EXTENDS Integers, Sequences, FiniteSets, TLC

VARIABLES
    ct_segments,      \* _chunk_transcript: the argument `segments`
    ct_max_chars,     \* _chunk_transcript: the argument `max_chars`
    ct_i,             \* _chunk_transcript: 1-based position of the for loop
    ct_chunks,        \* _chunk_transcript: `chunks`
    ct_current,       \* _chunk_transcript: `current`
    ct_current_chars, \* _chunk_transcript: `current_chars`
    ct_pc,            \* _chunk_transcript: "idle" | "loop" | "done"
    ms_segments,      \* merge_segments: the argument `segments`
    ms_window,        \* merge_segments: the argument `window_seconds`
    ms_i,             \* merge_segments: 1-based position of `for seg in segments[1:]`
    ms_merged,        \* merge_segments: `merged`
    ms_chunk_start,   \* merge_segments: `chunk_start`
    ms_chunk_end,     \* merge_segments: `chunk_end`
    ms_chunk_texts,   \* merge_segments: `chunk_texts`
    ms_runs,          \* history: the input positions absorbed by each chunk so far
    ms_pc,            \* merge_segments: "idle" | "call" | "loop" | "done"
    mm_w1,            \* two runs of merge_segments on one input: the smaller window
    mm_w2,            \* ... and the larger window
    mm_start1,        \* `chunk_start` in the run with window mm_w1
    mm_start2,        \* `chunk_start` in the run with window mm_w2
    mm_len1,          \* len(merged) in the run with window mm_w1
    mm_len2,          \* len(merged) in the run with window mm_w2
    mm_n,             \* number of input segments consumed by both runs
    mm_sorted,        \* history: the input's starts were non-decreasing so far
    mm_last,          \* history: the last segment consumed, as <<start, end>>
    mm_pc,            \* "idle" | "call" | "loop" | "done"
    sc_n,             \* _select_candidates: len(segments)
    sc_max,           \* _select_candidates: the argument `max_candidates`
    sc_result,        \* _select_candidates: what the call returned or raised
    sc_pc,            \* _select_candidates: "idle" | "call" | "done"
    ef_segments,      \* extract_frames: the argument `segments`
    ef_max_frames,    \* extract_frames: the argument `max_frames`
    ef_threshold,     \* extract_frames: the argument `dedup_threshold`
    ef_candidates,    \* extract_frames: `candidate_indices` (0-based indices)
    ef_pos,           \* extract_frames: 1-based position in candidate_indices
    ef_kept_frames,   \* extract_frames: `kept_frames`
    ef_kept_hashes,   \* extract_frames: `kept_hashes`
    ef_files,         \* the frame image files in output_dir: [path, image] records
    ef_event,         \* what the last step did: [op, idx, hash]
    ef_seen,          \* history: the images grabbed so far, each with whether it
                      \* was fingerprinted
    ef_unlinked,      \* history: the paths of the frames discarded as duplicates
    ef_pc,            \* extract_frames: "idle" | "call" | "loop" | "done" | "raised"
    rp_original,      \* the valid JSON text the input of _parse_json_response was made from
    rp_wrap,          \* how the input was wrapped: "bare" | "padded" | "fenced" | "truncated"
    rp_received,      \* _parse_json_response: the argument `raw` as received
    rp_raw,           \* _parse_json_response: `raw`
    rp_i,             \* _escape_json_strings: `i`, as a 1-based position
    rp_in_string,     \* _escape_json_strings: `in_string`
    rp_result,        \* _escape_json_strings: `result`, joined
    rp_parsed,        \* what json.loads returned or raised
    rp_raised,        \* the exception that left _parse_json_response, if any
    rp_pc,            \* _parse_json_response: "idle" | "call" | "scan" | "done" | "raised"
    mr_results,       \* _merge_chunk_results: the argument `results`
    mr_i,             \* _merge_chunk_results: 1-based position of the for loop
    mr_overviews,     \* _merge_chunk_results: `overviews`
    mr_all_chapters,  \* _merge_chunk_results: `all_chapters`
    mr_out,           \* _merge_chunk_results: the dict returned
    mr_pc,            \* _merge_chunk_results: "idle" | "call" | "loop" | "done"
    ps_lines,         \* parse_srt: the lines of the file at `path`
    ps_blocks,        \* parse_srt: `blocks`
    ps_i,             \* parse_srt: 1-based position of the for loop
    ps_segments,      \* parse_srt: `segments`
    ps_pc,            \* parse_srt: "idle" | "call" | "loop" | "done"
    fc_frames,        \* analyze: the argument `frames`
    fc_segments,      \* analyze: `chunk_segments`, one chunk of the transcript
    fc_max,           \* analyze: the argument `max_frames_per_chunk`
    fc_chunk_frames,  \* analyze: `chunk_frames`
    fc_pc,            \* analyze, lines 483-485: "idle" | "call" | "done"
    sn_raw,           \* _escape_json_strings: the argument `raw`
    sn_once,          \* _escape_json_strings(raw)
    sn_twice,         \* _escape_json_strings applied to its own result
    sn_pc,            \* "idle" | "call" | "once" | "done"
    pl_entry,         \* which pipeline runs: "idle" | "cli" | "server"
    pl_no_frames,     \* the option no_frames
    pl_has_subs,      \* info.has_any_subtitles
    pl_segments,      \* len(segments), the transcript
    pl_merged,        \* len(merged)
    pl_chunks,        \* analyze: the chunks not yet sent
    pl_calls,         \* history: the calls made to the collaborators, in order
    pl_queue,         \* server: the items put on the job's queue and not yet taken
    pl_exc,           \* the exception in flight, "" if none
    pl_failed,        \* history: a collaborator has failed
    pl_unparseable,   \* history: an analysis response could not be parsed
    pl_outcome,       \* how the run ended, "" while it runs
    pl_pc,            \* the stage the run is at
    st_jobs,          \* server: the job ids in _jobs
    st_q,             \* api_stream: `q` of each stream request
    st_sent,          \* api_stream: the events each stream request has yielded
    st_pc             \* api_stream: where each stream request is

vChunk == <<ct_segments, ct_max_chars, ct_i, ct_chunks, ct_current, ct_current_chars, ct_pc>>

vMerge == <<ms_segments, ms_window, ms_i, ms_merged, ms_chunk_start, ms_chunk_end,
            ms_chunk_texts, ms_runs, ms_pc>>

vMono == <<mm_w1, mm_w2, mm_start1, mm_start2, mm_len1, mm_len2, mm_n, mm_sorted,
           mm_last, mm_pc>>

vSelect == <<sc_n, sc_max, sc_result, sc_pc>>

vFrames == <<ef_segments, ef_max_frames, ef_threshold, ef_candidates, ef_pos,
             ef_kept_frames, ef_kept_hashes, ef_files, ef_event, ef_seen, ef_unlinked,
             ef_pc>>

vRepair == <<rp_original, rp_wrap, rp_received, rp_raw, rp_i, rp_in_string, rp_result,
             rp_parsed, rp_raised, rp_pc>>

vResults == <<mr_results, mr_i, mr_overviews, mr_all_chapters, mr_out, mr_pc>>

vSrt == <<ps_lines, ps_blocks, ps_i, ps_segments, ps_pc>>

vPair == <<fc_frames, fc_segments, fc_max, fc_chunk_frames, fc_pc>>

vScan == <<sn_raw, sn_once, sn_twice, sn_pc>>

vPipe == <<pl_entry, pl_no_frames, pl_has_subs, pl_segments, pl_merged, pl_chunks,
           pl_calls, pl_queue, pl_exc, pl_failed, pl_unparseable, pl_outcome,
           pl_pc>>

vStream == <<st_jobs, st_q, st_sent, st_pc>>

vars == <<vChunk, vMerge, vMono, vSelect, vFrames, vRepair, vResults, vSrt, vPair, vScan,
         vPipe, vStream>>

-----------------------------------------------------------------------------
(* Generic helpers on sequences.                                           *)

\* All sequences over S of length 0..n.
SeqsUpTo(S, n) == UNION {[1..k -> S] : k \in 0..n}

RECURSIVE Flatten(_)
\* Concatenation of a sequence of sequences, in order.
Flatten(ss) == IF ss = <<>> THEN <<>> ELSE Head(ss) \o Flatten(Tail(ss))

RECURSIVE SumSeq(_)
\* Sum of a sequence of integers.
SumSeq(s) == IF s = <<>> THEN 0 ELSE Head(s) + SumSeq(Tail(s))

-----------------------------------------------------------------------------
(* A component that is not the one under check stays idle.                 *)

ChunkIdle ==
    /\ ct_segments = <<>>
    /\ ct_max_chars = 0
    /\ ct_i = 0
    /\ ct_chunks = <<>>
    /\ ct_current = <<>>
    /\ ct_current_chars = 0
    /\ ct_pc = "idle"

MergeIdle ==
    /\ ms_segments = <<>>
    /\ ms_window = 0
    /\ ms_i = 0
    /\ ms_merged = <<>>
    /\ ms_chunk_start = 0
    /\ ms_chunk_end = 0
    /\ ms_chunk_texts = <<>>
    /\ ms_runs = <<>>
    /\ ms_pc = "idle"

MonoIdle ==
    /\ mm_w1 = 0
    /\ mm_w2 = 0
    /\ mm_start1 = 0
    /\ mm_start2 = 0
    /\ mm_len1 = 0
    /\ mm_len2 = 0
    /\ mm_n = 0
    /\ mm_sorted = TRUE
    /\ mm_last = <<0, 0>>
    /\ mm_pc = "idle"

SelectIdle ==
    /\ sc_n = 0
    /\ sc_max = 0
    /\ sc_result = [raised |-> "", value |-> <<>>]
    /\ sc_pc = "idle"

\* The None that _phash returns on failure: no fingerprint.
NoHash == <<>>

NoEvent == [op |-> "none", idx |-> 0, hash |-> NoHash]

FramesIdle ==
    /\ ef_segments = <<>>
    /\ ef_max_frames = 0
    /\ ef_threshold = 0
    /\ ef_candidates = <<>>
    /\ ef_pos = 0
    /\ ef_kept_frames = <<>>
    /\ ef_kept_hashes = <<>>
    /\ ef_files = {}
    /\ ef_event = NoEvent
    /\ ef_seen = {}
    /\ ef_unlinked = {}
    /\ ef_pc = "idle"

\* json.loads has not been called.
NotParsed == [ok |-> FALSE, error |-> "", value |-> <<>>]

\* No exception was raised.
NoError == [type |-> "", doc |-> <<>>]

RepairIdle ==
    /\ rp_original = <<>>
    /\ rp_wrap = "bare"
    /\ rp_received = <<>>
    /\ rp_raised = NoError
    /\ rp_raw = <<>>
    /\ rp_i = 0
    /\ rp_in_string = FALSE
    /\ rp_result = <<>>
    /\ rp_parsed = NotParsed
    /\ rp_pc = "idle"

\* A dict with no entries.
EmptyDict == [k \in {} |-> <<>>]

ResultsIdle ==
    /\ mr_results = <<>>
    /\ mr_i = 0
    /\ mr_overviews = <<>>
    /\ mr_all_chapters = <<>>
    /\ mr_out = EmptyDict
    /\ mr_pc = "idle"

SrtIdle ==
    /\ ps_lines = <<>>
    /\ ps_blocks = <<>>
    /\ ps_i = 0
    /\ ps_segments = <<>>
    /\ ps_pc = "idle"

PairIdle ==
    /\ fc_frames = <<>>
    /\ fc_segments = <<>>
    /\ fc_max = 0
    /\ fc_chunk_frames = <<>>
    /\ fc_pc = "idle"

ScanIdle ==
    /\ sn_raw = <<>>
    /\ sn_once = <<>>
    /\ sn_twice = <<>>
    /\ sn_pc = "idle"

PipeIdle ==
    /\ pl_entry = "idle"
    /\ pl_no_frames = FALSE
    /\ pl_has_subs = FALSE
    /\ pl_segments = 0
    /\ pl_merged = 0
    /\ pl_chunks = 0
    /\ pl_calls = <<>>
    /\ pl_queue = <<>>
    /\ pl_exc = ""
    /\ pl_failed = FALSE
    /\ pl_unparseable = FALSE
    /\ pl_outcome = ""
    /\ pl_pc = "idle"

StreamIdle ==
    /\ st_jobs = {}
    /\ st_q = <<>>
    /\ st_sent = <<>>
    /\ st_pc = <<>>

-----------------------------------------------------------------------------
(* Bounds of the chunker's inputs.                                         *)

MaxChunkSegs == 4
MaxChars == 30

\* Texts of the chunker's input segments: lengths 1, 3 and 15.
ChunkTexts == {"a", "abc", "abcdefghijklmno"}

\* test_m6.make_segments: segment i spans [i*gap, (i+1)*gap] (gap = 60).
make_segments(texts) ==
    [i \in 1..Len(texts) |-> [start |-> (i - 1) * 60, end |-> i * 60, text |-> texts[i]]]

-----------------------------------------------------------------------------
(* analyzer._chunk_transcript                                              *)

\* The fixed per-line cost added to len(seg.text) (analyzer.py line 205).
SegOverhead == 12

\* seg_chars = len(seg.text) + 12
seg_chars(seg) == Len(seg.text) + SegOverhead

\* A bug: the flushed chunk is not reset before the segment is appended.
ChunkBodyNoReset(st, seg, max_chars) ==
    IF st.current_chars + seg_chars(seg) > max_chars /\ st.current # <<>>
    THEN [chunks |-> Append(st.chunks, st.current),
          current |-> Append(st.current, seg),
          current_chars |-> seg_chars(seg)]
    ELSE [chunks |-> st.chunks,
          current |-> Append(st.current, seg),
          current_chars |-> st.current_chars + seg_chars(seg)]

\* A bug: the budget test leaves the incoming segment's overhead out of its cost.
ChunkBodyNoOverhead(st, seg, max_chars) ==
    IF st.current_chars + Len(seg.text) > max_chars /\ st.current # <<>>
    THEN [chunks |-> Append(st.chunks, st.current),
          current |-> <<seg>>,
          current_chars |-> seg_chars(seg)]
    ELSE [chunks |-> st.chunks,
          current |-> Append(st.current, seg),
          current_chars |-> st.current_chars + seg_chars(seg)]

\* One iteration of `for seg in segments` (lines 204-211) on the loop state
\* st = [chunks, current, current_chars].
ChunkBody(st, seg, max_chars) ==
    IF st.current_chars + seg_chars(seg) > max_chars /\ st.current # <<>>
    THEN [chunks |-> Append(st.chunks, st.current),
          current |-> <<seg>>,
          current_chars |-> seg_chars(seg)]
    ELSE [chunks |-> st.chunks,
          current |-> Append(st.current, seg),
          current_chars |-> st.current_chars + seg_chars(seg)]

\* Lines 213-216: the trailing `if current: chunks.append(current)`.
ChunkFlush(st) ==
    IF st.current # <<>> THEN Append(st.chunks, st.current) ELSE st.chunks

RECURSIVE ChunkLoop(_, _, _)
ChunkLoop(st, segs, max_chars) ==
    IF segs = <<>> THEN st
    ELSE ChunkLoop(ChunkBody(st, Head(segs), max_chars), Tail(segs), max_chars)

\* _chunk_transcript(segments, max_chars) as a function of its arguments.
chunk_transcript(segments, max_chars) ==
    ChunkFlush(ChunkLoop([chunks |-> <<>>, current |-> <<>>, current_chars |-> 0],
                         segments, max_chars))

\* The call: lines 200-202, with the arguments drawn from the bounded sets.
InitChunk ==
    /\ MergeIdle
    /\ MonoIdle
    /\ SelectIdle
    /\ FramesIdle
    /\ RepairIdle
    /\ ResultsIdle
    /\ SrtIdle
    /\ PairIdle
    /\ ScanIdle
    /\ PipeIdle
    /\ StreamIdle
    /\ ct_segments \in {make_segments(t) : t \in SeqsUpTo(ChunkTexts, MaxChunkSegs)}
    /\ ct_max_chars \in 1..MaxChars
    /\ ct_i = 1
    /\ ct_chunks = <<>>
    /\ ct_current = <<>>
    /\ ct_current_chars = 0
    /\ ct_pc = "loop"

\* One iteration of the for loop.
ChunkStep ==
    /\ ct_pc = "loop"
    /\ ct_i <= Len(ct_segments)
    /\ LET st == ChunkBody([chunks |-> ct_chunks, current |-> ct_current,
                            current_chars |-> ct_current_chars],
                           ct_segments[ct_i], ct_max_chars)
       IN /\ ct_chunks' = st.chunks
          /\ ct_current' = st.current
          /\ ct_current_chars' = st.current_chars
    /\ ct_i' = ct_i + 1
    /\ UNCHANGED <<ct_segments, ct_max_chars, ct_pc>>
    /\ UNCHANGED <<vMerge, vMono, vSelect, vFrames, vRepair, vResults, vSrt, vPair, vScan, vPipe,
                   vStream>>

\* The loop is exhausted: flush and return `chunks`.
ChunkReturn ==
    /\ ct_pc = "loop"
    /\ ct_i > Len(ct_segments)
    /\ ct_chunks' = ChunkFlush([chunks |-> ct_chunks, current |-> ct_current,
                                current_chars |-> ct_current_chars])
    /\ ct_pc' = "done"
    /\ UNCHANGED <<ct_segments, ct_max_chars, ct_i, ct_current, ct_current_chars>>
    /\ UNCHANGED <<vMerge, vMono, vSelect, vFrames, vRepair, vResults, vSrt, vPair, vScan, vPipe,
                   vStream>>

NextChunk == ChunkStep \/ ChunkReturn

SpecChunk == InitChunk /\ [][NextChunk]_vars

-----------------------------------------------------------------------------
(* Claims about _chunk_transcript.                                         *)

\* Cost of a chunk: the sum over its segments of len(text) + 12.
ChunkCost(chunk) == SumSeq([k \in 1..Len(chunk) |-> seg_chars(chunk[k])])

\* C1: when _chunk_transcript returns, the chunks concatenated in order are
\* exactly the input sequence, no chunk is empty, and an empty input gives no
\* chunks; the returned value is the function chunk_transcript of the arguments.
C1_Partition ==
    ct_pc = "done" =>
        /\ Flatten(ct_chunks) = ct_segments
        /\ \A k \in 1..Len(ct_chunks) : ct_chunks[k] # <<>>
        /\ (ct_segments = <<>> => ct_chunks = <<>>)
        /\ ct_chunks = chunk_transcript(ct_segments, ct_max_chars)

\* C1 witness: a returned result with several chunks, one of them holding
\* more than one segment.
C1_Witness ==
    /\ ct_pc = "done"
    /\ Len(ct_chunks) >= 2
    /\ \E k \in 1..Len(ct_chunks) : Len(ct_chunks[k]) >= 2

\* C2: in every returned chunk the cost is within max_chars, unless the chunk
\* is one single segment whose own cost exceeds max_chars; a segment whose own
\* cost exceeds max_chars is alone in its chunk.
C2_Budget ==
    ct_pc = "done" =>
        \A k \in 1..Len(ct_chunks) :
            /\ \/ ChunkCost(ct_chunks[k]) <= ct_max_chars
               \/ /\ Len(ct_chunks[k]) = 1
                  /\ seg_chars(ct_chunks[k][1]) > ct_max_chars
            /\ \A j \in 1..Len(ct_chunks[k]) :
                   seg_chars(ct_chunks[k][j]) > ct_max_chars => Len(ct_chunks[k]) = 1

\* C2 witness: a returned result that holds both an oversized segment alone in
\* its chunk and a chunk of two segments filling the budget exactly.
C2_Witness ==
    /\ ct_pc = "done"
    /\ \E k \in 1..Len(ct_chunks) :
           Len(ct_chunks[k]) = 1 /\ seg_chars(ct_chunks[k][1]) > ct_max_chars
    /\ \E k \in 1..Len(ct_chunks) :
           Len(ct_chunks[k]) = 2 /\ ChunkCost(ct_chunks[k]) = ct_max_chars

-----------------------------------------------------------------------------
(* transcriber.merge_segments                                              *)

MaxMergeSegs == 3
MaxTime == 2
MaxWindow == 2

\* The text of the i-th input segment: one distinct word per position.
SegLabel(i) == <<"a", "b", "c", "d", "e", "f">>[i]

\* Every (start, end) on the time grid with end >= start (Segment's invariant).
Spans == {se \in (0..MaxTime) \X (0..MaxTime) : se[2] >= se[1]}

\* Segment(start=..., end=..., text=...) for a sequence of spans.
SegmentsOf(spans) ==
    [i \in 1..Len(spans) |-> [start |-> spans[i][1], end |-> spans[i][2], text |-> SegLabel(i)]]

\* Segment.duration
duration(seg) == seg.end - seg.start

RECURSIVE Join(_)
\* " ".join(texts)
Join(texts) ==
    IF texts = <<>> THEN ""
    ELSE IF Len(texts) = 1 THEN texts[1]
    ELSE texts[1] \o " " \o Join(Tail(texts))

\* A bug: the window is measured from the previous segment's end (a sliding
\* window) instead of from the open chunk's start.
MergeBodySliding(st, seg, window_seconds) ==
    IF seg.end - st.chunk_end <= window_seconds
    THEN [merged |-> st.merged,
          chunk_start |-> st.chunk_start,
          chunk_end |-> seg.end,
          chunk_texts |-> Append(st.chunk_texts, seg.text)]
    ELSE [merged |-> Append(st.merged, [start |-> st.chunk_start, end |-> st.chunk_end,
                                        text |-> Join(st.chunk_texts)]),
          chunk_start |-> seg.start,
          chunk_end |-> seg.end,
          chunk_texts |-> <<seg.text>>]

\* A bug: an absorbed segment's text is appended but chunk_end is not extended.
MergeBodyStaleEnd(st, seg, window_seconds) ==
    IF seg.end - st.chunk_start <= window_seconds
    THEN [merged |-> st.merged,
          chunk_start |-> st.chunk_start,
          chunk_end |-> st.chunk_end,
          chunk_texts |-> Append(st.chunk_texts, seg.text)]
    ELSE [merged |-> Append(st.merged, [start |-> st.chunk_start, end |-> st.chunk_end,
                                        text |-> Join(st.chunk_texts)]),
          chunk_start |-> seg.start,
          chunk_end |-> seg.end,
          chunk_texts |-> <<seg.text>>]

\* A bug: the window test is inverted (> for <=), so a segment is absorbed
\* when it lies beyond the window.
MergeBodyInverted(st, seg, window_seconds) ==
    IF seg.end - st.chunk_start > window_seconds
    THEN [merged |-> st.merged,
          chunk_start |-> st.chunk_start,
          chunk_end |-> seg.end,
          chunk_texts |-> Append(st.chunk_texts, seg.text)]
    ELSE [merged |-> Append(st.merged, [start |-> st.chunk_start, end |-> st.chunk_end,
                                        text |-> Join(st.chunk_texts)]),
          chunk_start |-> seg.start,
          chunk_end |-> seg.end,
          chunk_texts |-> <<seg.text>>]

\* A bug: a new chunk takes the segment's start but keeps the old chunk_end.
MergeBodyNoEndReset(st, seg, window_seconds) ==
    IF seg.end - st.chunk_start <= window_seconds
    THEN [merged |-> st.merged,
          chunk_start |-> st.chunk_start,
          chunk_end |-> seg.end,
          chunk_texts |-> Append(st.chunk_texts, seg.text)]
    ELSE [merged |-> Append(st.merged, [start |-> st.chunk_start, end |-> st.chunk_end,
                                        text |-> Join(st.chunk_texts)]),
          chunk_start |-> seg.start,
          chunk_end |-> st.chunk_end,
          chunk_texts |-> <<seg.text>>]

\* One iteration of `for seg in segments[1:]` (lines 144-156) on the loop state
\* st = [merged, chunk_start, chunk_end, chunk_texts].
MergeBody(st, seg, window_seconds) ==
    IF seg.end - st.chunk_start <= window_seconds
    THEN [merged |-> st.merged,
          chunk_start |-> st.chunk_start,
          chunk_end |-> seg.end,
          chunk_texts |-> Append(st.chunk_texts, seg.text)]
    ELSE [merged |-> Append(st.merged, [start |-> st.chunk_start, end |-> st.chunk_end,
                                        text |-> Join(st.chunk_texts)]),
          chunk_start |-> seg.start,
          chunk_end |-> seg.end,
          chunk_texts |-> <<seg.text>>]

\* Lines 139-142: the open chunk is initialised from segments[0].
MergeFirst(seg) ==
    [merged |-> <<>>, chunk_start |-> seg.start, chunk_end |-> seg.end,
     chunk_texts |-> <<seg.text>>]

\* Lines 158-164: the final open chunk is always emitted.
MergeLast(st) ==
    Append(st.merged, [start |-> st.chunk_start, end |-> st.chunk_end,
                       text |-> Join(st.chunk_texts)])

RECURSIVE MergeLoop(_, _, _)
MergeLoop(st, segs, window_seconds) ==
    IF segs = <<>> THEN st
    ELSE MergeLoop(MergeBody(st, Head(segs), window_seconds), Tail(segs), window_seconds)

\* merge_segments(segments, window_seconds) as a function of its arguments.
merge_segments(segments, window_seconds) ==
    IF segments = <<>> THEN <<>>
    ELSE MergeLast(MergeLoop(MergeFirst(Head(segments)), Tail(segments), window_seconds))

\* The loop state held in the variables.
MergeState ==
    [merged |-> ms_merged, chunk_start |-> ms_chunk_start, chunk_end |-> ms_chunk_end,
     chunk_texts |-> ms_chunk_texts]

\* The call, with the arguments drawn from the bounded sets.
InitMerge ==
    /\ ChunkIdle
    /\ MonoIdle
    /\ SelectIdle
    /\ FramesIdle
    /\ RepairIdle
    /\ ResultsIdle
    /\ SrtIdle
    /\ PairIdle
    /\ ScanIdle
    /\ PipeIdle
    /\ StreamIdle
    /\ ms_segments \in {SegmentsOf(sp) : sp \in SeqsUpTo(Spans, MaxMergeSegs)}
    /\ ms_window \in (-1)..MaxWindow
    /\ ms_i = 0
    /\ ms_merged = <<>>
    /\ ms_chunk_start = 0
    /\ ms_chunk_end = 0
    /\ ms_chunk_texts = <<>>
    /\ ms_runs = <<>>
    /\ ms_pc = "call"

\* Lines 136-142: empty input returns []; otherwise the first segment opens a chunk.
MergeEnter ==
    /\ ms_pc = "call"
    /\ IF ms_segments = <<>>
       THEN /\ ms_pc' = "done"
            /\ UNCHANGED <<ms_i, ms_merged, ms_chunk_start, ms_chunk_end, ms_chunk_texts,
                           ms_runs>>
       ELSE /\ LET st == MergeFirst(ms_segments[1])
               IN /\ ms_merged' = st.merged
                  /\ ms_chunk_start' = st.chunk_start
                  /\ ms_chunk_end' = st.chunk_end
                  /\ ms_chunk_texts' = st.chunk_texts
            /\ ms_i' = 2
            /\ ms_runs' = <<<<1>>>>
            /\ ms_pc' = "loop"
    /\ UNCHANGED <<ms_segments, ms_window>>
    /\ UNCHANGED <<vChunk, vMono, vSelect, vFrames, vRepair, vResults, vSrt, vPair, vScan, vPipe,
                   vStream>>

\* One iteration of the for loop. The history records where segment ms_i
\* went: a new run when the code emitted a chunk, the open run otherwise.
MergeStep ==
    /\ ms_pc = "loop"
    /\ ms_i <= Len(ms_segments)
    /\ LET st == MergeBody(MergeState, ms_segments[ms_i], ms_window)
       IN /\ ms_merged' = st.merged
          /\ ms_chunk_start' = st.chunk_start
          /\ ms_chunk_end' = st.chunk_end
          /\ ms_chunk_texts' = st.chunk_texts
          /\ ms_runs' = IF Len(st.merged) > Len(ms_merged)
                        THEN Append(ms_runs, <<ms_i>>)
                        ELSE [ms_runs EXCEPT ![Len(ms_runs)] = Append(@, ms_i)]
    /\ ms_i' = ms_i + 1
    /\ UNCHANGED <<ms_segments, ms_window, ms_pc>>
    /\ UNCHANGED <<vChunk, vMono, vSelect, vFrames, vRepair, vResults, vSrt, vPair, vScan, vPipe,
                   vStream>>

\* The loop is exhausted: emit the open chunk and return `merged`.
MergeReturn ==
    /\ ms_pc = "loop"
    /\ ms_i > Len(ms_segments)
    /\ ms_merged' = MergeLast(MergeState)
    /\ ms_pc' = "done"
    /\ UNCHANGED <<ms_segments, ms_window, ms_i, ms_chunk_start, ms_chunk_end,
                   ms_chunk_texts, ms_runs>>
    /\ UNCHANGED <<vChunk, vMono, vSelect, vFrames, vRepair, vResults, vSrt, vPair, vScan, vPipe,
                   vStream>>

NextMerge == MergeEnter \/ MergeStep \/ MergeReturn

SpecMerge == InitMerge /\ [][NextMerge]_vars

-----------------------------------------------------------------------------
(* Claims about merge_segments.                                            *)

\* Start and end of the k-th chunk so far: an emitted one, or the open one.
ChunkStartAt(k) == IF k <= Len(ms_merged) THEN ms_merged[k].start ELSE ms_chunk_start
ChunkEndAt(k) == IF k <= Len(ms_merged) THEN ms_merged[k].end ELSE ms_chunk_end

\* The texts of the input segments at the positions of a run.
RunTexts(run) == [j \in 1..Len(run) |-> ms_segments[run[j]].text]

\* What the claim says one loop iteration does with segment ms_i.
C3_StepRule ==
    (ms_pc = "loop" /\ ms_i' = ms_i + 1) =>
        LET seg == ms_segments[ms_i] IN
        IF seg.end - ms_chunk_start <= ms_window
        THEN /\ ms_merged' = ms_merged
             /\ ms_chunk_start' = ms_chunk_start
             /\ ms_chunk_end' = seg.end
             /\ ms_chunk_texts' = Append(ms_chunk_texts, seg.text)
        ELSE /\ ms_merged' = Append(ms_merged, [start |-> ms_chunk_start,
                                                end |-> ms_chunk_end,
                                                text |-> Join(ms_chunk_texts)])
             /\ ms_chunk_start' = seg.start
             /\ ms_chunk_end' = seg.end
             /\ ms_chunk_texts' = <<seg.text>>

\* What follows for the chunks built so far.
C3_Chunks ==
    \A k \in 1..Len(ms_runs) :
        /\ Len(ms_runs[k]) >= 2 => ChunkEndAt(k) - ChunkStartAt(k) <= ms_window
        /\ k >= 2 => ms_segments[ms_runs[k][1]].end - ChunkStartAt(k - 1) > ms_window

\* C3: the window test is made against the open chunk's start only: a segment
\* is absorbed iff segment.end - chunk_start <= window_seconds, otherwise the
\* open chunk is emitted and a new one opened at that segment; so a chunk that
\* absorbed two or more segments has end - start <= window_seconds, and the
\* first segment of every later chunk ends more than window_seconds after the
\* previous chunk's start.
C3_WindowFromChunkStart == [][C3_StepRule]_vars /\ []C3_Chunks

\* C3 witness: a returned result whose first chunk absorbed two segments and
\* is followed by another chunk.
C3_Witness ==
    /\ ms_pc = "done"
    /\ Len(ms_runs) >= 2
    /\ Len(ms_runs[1]) >= 2

\* C4: the returned chunks are consecutive non-empty runs of the input that
\* cover it in order; each chunk has its run's first start, its run's last end
\* and its run's texts joined by one space; empty input gives empty output
\* and non-empty input at least one chunk.
C4_Runs ==
    ms_pc = "done" =>
        /\ Len(ms_merged) = Len(ms_runs)
        /\ Flatten(ms_runs) = [i \in 1..Len(ms_segments) |-> i]
        /\ \A k \in 1..Len(ms_runs) :
               /\ ms_runs[k] # <<>>
               /\ ms_merged[k].start = ms_segments[ms_runs[k][1]].start
               /\ ms_merged[k].end = ms_segments[ms_runs[k][Len(ms_runs[k])]].end
               /\ ms_merged[k].text = Join(RunTexts(ms_runs[k]))
        /\ (ms_segments = <<>> => ms_merged = <<>>)
        /\ (ms_segments # <<>> => Len(ms_merged) >= 1)
        /\ ms_merged = merge_segments(ms_segments, ms_window)

\* C4 witness: a returned result of two chunks whose second chunk joined the
\* texts of the second and third segment.
C4_Witness ==
    /\ ms_pc = "done"
    /\ Len(ms_merged) = 2
    /\ ms_merged[2].text = "b c"

-----------------------------------------------------------------------------
(* Two runs of merge_segments on the same input, with windows W1 <= W2.    *)
(* The input is consumed one segment at a time by both runs in lockstep.   *)
(* The loop of merge_segments reads only `chunk_start` of its state:       *)
(* `merged`, `chunk_end` and `chunk_texts` are written and never read      *)
(* (lines 144-156), so each run keeps `chunk_start` and len(merged).       *)

MaxMonoSegs == 4
MaxMonoTime == 7
MaxMonoWindow == 4

\* Every segment on the time grid with end >= start.
MonoSegments ==
    {[start |-> se[1], end |-> se[2], text |-> "a"] :
        se \in {x \in (0..MaxMonoTime) \X (0..MaxMonoTime) : x[2] >= x[1]}}

\* The loop body applied to a run that keeps chunk_start and len(merged):
\* the new chunk_start and the number of chunks the iteration emitted.
MergeBodyCount(chunk_start, seg, window_seconds) ==
    LET st == MergeBody([merged |-> <<>>, chunk_start |-> chunk_start,
                         chunk_end |-> chunk_start, chunk_texts |-> <<>>],
                        seg, window_seconds)
    IN [chunk_start |-> st.chunk_start, emitted |-> Len(st.merged)]

\* The two calls, with windows W1 <= W2.
InitMono ==
    /\ ChunkIdle
    /\ MergeIdle
    /\ SelectIdle
    /\ FramesIdle
    /\ RepairIdle
    /\ ResultsIdle
    /\ SrtIdle
    /\ PairIdle
    /\ ScanIdle
    /\ PipeIdle
    /\ StreamIdle
    /\ mm_w1 \in 0..MaxMonoWindow
    /\ mm_w2 \in 0..MaxMonoWindow
    /\ mm_w1 <= mm_w2
    /\ mm_start1 = 0
    /\ mm_start2 = 0
    /\ mm_len1 = 0
    /\ mm_len2 = 0
    /\ mm_n = 0
    /\ mm_sorted = TRUE
    /\ mm_last = <<0, 0>>
    /\ mm_pc = "call"

\* Lines 136-137: the input is empty, both runs return [].
MonoReturnEmpty ==
    /\ mm_pc = "call"
    /\ mm_pc' = "done"
    /\ UNCHANGED <<mm_w1, mm_w2, mm_start1, mm_start2, mm_len1, mm_len2, mm_n, mm_sorted,
                   mm_last>>
    /\ UNCHANGED <<vChunk, vMerge, vSelect, vFrames, vRepair, vResults, vSrt, vPair, vScan, vPipe,
                   vStream>>

\* Lines 139-142: the input's first segment opens a chunk in both runs. Both
\* windows are at least the duration of every segment of the input.
MonoFirst ==
    /\ mm_pc = "call"
    /\ \E seg \in MonoSegments :
        /\ duration(seg) <= mm_w1
        /\ mm_start1' = MergeFirst(seg).chunk_start
        /\ mm_start2' = MergeFirst(seg).chunk_start
        /\ mm_last' = <<seg.start, seg.end>>
    /\ mm_n' = 1
    /\ mm_pc' = "loop"
    /\ UNCHANGED <<mm_w1, mm_w2, mm_len1, mm_len2, mm_sorted>>
    /\ UNCHANGED <<vChunk, vMerge, vSelect, vFrames, vRepair, vResults, vSrt, vPair, vScan, vPipe,
                   vStream>>

\* One iteration of the for loop in both runs, on the input's next segment.
MonoStep ==
    /\ mm_pc = "loop"
    /\ mm_n < MaxMonoSegs
    /\ \E seg \in MonoSegments :
        /\ duration(seg) <= mm_w1
        /\ LET r1 == MergeBodyCount(mm_start1, seg, mm_w1)
               r2 == MergeBodyCount(mm_start2, seg, mm_w2)
               sorted == mm_sorted /\ seg.start >= mm_last[1]
           IN /\ mm_start1' = r1.chunk_start
              /\ mm_len1' = mm_len1 + r1.emitted
              /\ mm_start2' = r2.chunk_start
              /\ mm_len2' = mm_len2 + r2.emitted
              /\ mm_sorted' = sorted
              /\ mm_last' = <<seg.start, seg.end>>
    /\ mm_n' = mm_n + 1
    /\ UNCHANGED <<mm_w1, mm_w2, mm_pc>>
    /\ UNCHANGED <<vChunk, vMerge, vSelect, vFrames, vRepair, vResults, vSrt, vPair, vScan, vPipe,
                   vStream>>

\* Lines 158-164: the input is exhausted, both runs emit their open chunk.
MonoReturn ==
    /\ mm_pc = "loop"
    /\ mm_len1' = mm_len1 + 1
    /\ mm_len2' = mm_len2 + 1
    /\ mm_pc' = "done"
    /\ UNCHANGED <<mm_w1, mm_w2, mm_start1, mm_start2, mm_n, mm_sorted, mm_last>>
    /\ UNCHANGED <<vChunk, vMerge, vSelect, vFrames, vRepair, vResults, vSrt, vPair, vScan, vPipe,
                   vStream>>

NextMono == MonoReturnEmpty \/ MonoFirst \/ MonoStep \/ MonoReturn

SpecMono == InitMono /\ [][NextMono]_vars

\* C5 as claimed: for every input (each segment with end >= start) and every
\* W1 <= W2 that are both at least the input's largest duration,
\* len(merge_segments(input, W2)) <= len(merge_segments(input, W1)).
C5_Monotone == mm_pc = "done" => mm_len2 <= mm_len1

\* C5 amended: the same, for inputs whose starts are non-decreasing.
C5_MonotoneSorted == (mm_pc = "done" /\ mm_sorted) => mm_len2 <= mm_len1

\* C5 witness: a sorted input of at least three segments that the larger
\* window merges into strictly fewer chunks.
C5_Witness ==
    /\ mm_pc = "done"
    /\ mm_sorted
    /\ mm_n >= 3
    /\ mm_len2 < mm_len1
    /\ mm_len2 >= 2

-----------------------------------------------------------------------------
(* Python float arithmetic of _select_candidates (IEEE 754 binary64).      *)
(* A positive float is [mant, exp]: mant is its 53-bit significand, most   *)
(* significant bit first (always 1), and its value is mant * 2^(exp - 52). *)
(* Significands are bit sequences, so no intermediate exceeds 32-bit       *)
(* integer arithmetic.                                                     *)

\* Bits of a binary64 significand.
MantissaBits == 53

\* The c binary digits of v (0 <= v < 2^c), most significant first.
BitsOf(v, c) == [j \in 1..c |-> (v \div 2^(c - j)) % 2]

\* The binary digits of k (0 <= k < 2^30) without leading zeros (<<>> for 0).
IntBits(k) == BitsOf(k, CHOOSE b \in 0..30 : k < 2^b /\ (b = 0 \/ 2^(b - 1) <= k))

RECURSIVE BitsToInt(_)
\* The integer written by a bit sequence of at most 30 bits.
BitsToInt(bits) ==
    IF bits = <<>> THEN 0
    ELSE IF Len(bits) = 1 THEN bits[1]
    ELSE LET h == Len(bits) \div 2
         IN BitsToInt(SubSeq(bits, 1, h)) * 2^(Len(bits) - h)
                + BitsToInt(SubSeq(bits, h + 1, Len(bits)))

RECURSIVE FracBits(_, _, _, _)
\* The next `count` binary digits of r / m (0 <= r < m), by long division
\* (13 digits at a time), appended to acc; and the remainder left.
FracBits(r, m, count, acc) ==
    IF count = 0 THEN [bits |-> acc, rem |-> r]
    ELSE FracBits((r * 2^(IF count < 13 THEN count ELSE 13)) % m, m,
                  count - (IF count < 13 THEN count ELSE 13),
                  acc \o BitsOf((r * 2^(IF count < 13 THEN count ELSE 13)) \div m,
                                IF count < 13 THEN count ELSE 13))

\* The bit sequence plus one (one bit longer when every bit was 1).
BitsInc(bits) ==
    LET zeros == {k \in 1..Len(bits) : bits[k] = 0} IN
    IF zeros = {} THEN <<1>> \o [k \in 1..Len(bits) |-> 0]
    ELSE LET z == CHOOSE k \in zeros : \A j \in zeros : j <= k
         IN [k \in 1..Len(bits) |-> IF k < z THEN bits[k] ELSE IF k = z THEN 1 ELSE 0]

RECURSIVE MulBits(_, _, _, _, _)
\* bits[1..k] * i + carry, followed by acc: multiplication of a bit sequence
\* by a small integer, 13 bits at a time from the least significant end.
MulBits(bits, k, i, carry, acc) ==
    IF k = 0 THEN IntBits(carry) \o acc
    ELSE IF k < 13
    THEN IntBits(BitsToInt(SubSeq(bits, 1, k)) * i + carry) \o acc
    ELSE MulBits(bits, k - 13, i,
                 (BitsToInt(SubSeq(bits, k - 12, k)) * i + carry) \div 2^13,
                 BitsOf((BitsToInt(SubSeq(bits, k - 12, k)) * i + carry) % 2^13, 13) \o acc)

\* Round an exact result (its bits, leading bit 1, at least 53 of them, and
\* whether non-zero digits follow them) to 53 bits, to nearest, ties to even.
\* carry is 1 when rounding up overflowed into the next power of two.
RoundNearestEven(bits, sticky_in) ==
    LET kept == SubSeq(bits, 1, MantissaBits)
        guard == IF Len(bits) > MantissaBits THEN bits[MantissaBits + 1] ELSE 0
        sticky == sticky_in \/ \E k \in (MantissaBits + 2)..Len(bits) : bits[k] = 1
        up == guard = 1 /\ (sticky \/ kept[MantissaBits] = 1)
        r == IF up THEN BitsInc(kept) ELSE kept
    IN [mant |-> SubSeq(r, 1, MantissaBits), carry |-> Len(r) - MantissaBits]

\* n / m for integers n >= m >= 1: true division, correctly rounded.
FloatDiv(n, m) ==
    LET ib == IntBits(n \div m)
        fb == FracBits(n % m, m, MantissaBits + 1 - Len(ib), <<>>)
        rr == RoundNearestEven(ib \o fb.bits, fb.rem # 0)
    IN [mant |-> rr.mant, exp |-> Len(ib) - 1 + rr.carry]

\* i * x for an integer i >= 1 and a float x: the exact product, rounded.
FloatMulInt(i, x) ==
    LET p == MulBits(x.mant, MantissaBits, i, 0, <<>>)
        rr == RoundNearestEven(p, FALSE)
    IN [mant |-> rr.mant, exp |-> x.exp + (Len(p) - MantissaBits) + rr.carry]

\* int(x): truncation of a positive float.
FloatToInt(x) ==
    IF x.exp < 0 THEN 0 ELSE BitsToInt(SubSeq(x.mant, 1, x.exp + 1))

-----------------------------------------------------------------------------
(* frame_extractor._select_candidates                                      *)

MaxSelectSegs == 30
MaxSelectCands == 22

\* int(i * step) with step = n / max_candidates (lines 97-98); 0 * step is 0.0.
SampleAt(i, n, max_candidates) ==
    IF i = 0 THEN 0 ELSE FloatToInt(FloatMulInt(i, FloatDiv(n, max_candidates)))

\* _select_candidates(segments, max_candidates) for len(segments) = n: the
\* list returned (0-based indices), or the exception raised.
select_candidates(n, max_candidates) ==
    IF n <= max_candidates
    THEN [raised |-> "", value |-> [k \in 1..n |-> k - 1]]
    ELSE IF max_candidates = 0
    THEN [raised |-> "ZeroDivisionError", value |-> <<>>]
    ELSE IF max_candidates < 0
    THEN [raised |-> "", value |-> <<>>]
    ELSE [raised |-> "",
          value |-> [k \in 1..max_candidates |-> SampleAt(k - 1, n, max_candidates)]]

\* The call, with the arguments drawn from the bounded sets.
InitSelect ==
    /\ ChunkIdle
    /\ MergeIdle
    /\ MonoIdle
    /\ FramesIdle
    /\ RepairIdle
    /\ ResultsIdle
    /\ SrtIdle
    /\ PairIdle
    /\ ScanIdle
    /\ PipeIdle
    /\ StreamIdle
    /\ sc_n \in 0..MaxSelectSegs
    /\ sc_max \in 0..MaxSelectCands
    /\ sc_result = [raised |-> "", value |-> <<>>]
    /\ sc_pc = "call"

\* The call returns or raises.
SelectCall ==
    /\ sc_pc = "call"
    /\ sc_result' = select_candidates(sc_n, sc_max)
    /\ sc_pc' = "done"
    /\ UNCHANGED <<sc_n, sc_max>>
    /\ UNCHANGED <<vChunk, vMerge, vMono, vFrames, vRepair, vResults, vSrt, vPair, vScan, vPipe,
                   vStream>>

NextSelect == SelectCall

SpecSelect == InitSelect /\ [][NextSelect]_vars

-----------------------------------------------------------------------------
(* Claims about _select_candidates.                                        *)

Min(a, b) == IF a <= b THEN a ELSE b

\* C8: for every n >= 0 and max_candidates >= 0 the call returns, without
\* raising, a list of length min(n, max_candidates).
C8_Length ==
    sc_pc = "done" =>
        /\ sc_result.raised = ""
        /\ Len(sc_result.value) = Min(sc_n, sc_max)

\* C9: a non-empty returned list is strictly increasing, starts at 0 and holds
\* valid indices 0..n-1; in the sampling branch (n > max_candidates) element i
\* is floor(i * n / max_candidates).
C9_Stride ==
    (sc_pc = "done" /\ sc_result.value # <<>>) =>
        LET v == sc_result.value IN
        /\ \A k \in 1..(Len(v) - 1) : v[k] < v[k + 1]
        /\ v[1] = 0
        /\ \A k \in 1..Len(v) : v[k] \in 0..(sc_n - 1)
        /\ sc_n > sc_max => \A k \in 1..Len(v) : v[k] = ((k - 1) * sc_n) \div sc_max

-----------------------------------------------------------------------------
(* frame_extractor.extract_frames                                          *)

MaxFrameSegs == 4
MaxFrames == 3
\* Bits of a perceptual fingerprint in the model (imagehash.phash has 64).
HashBits == 2

\* What a failed run of ffmpeg may leave behind: an empty or partial file.
EmptyFile == [pixels |-> -1]

\* An image file that PIL cannot read.
CorruptImage == [pixels |-> 2^HashBits]

\* The images ffmpeg can grab, told apart by their pixel content.
Images == {[pixels |-> k] : k \in 0..(2^HashBits - 1)} \cup {CorruptImage}

\* imagehash.phash(Image.open(path)): the fingerprint of an image, a bit
\* sequence; pixel-identical images have the same fingerprint.
FingerprintOf(image) == BitsOf(image.pixels, HashBits)

\* new_hash - h: the Hamming distance of two fingerprints.
Hamming(a, b) == Cardinality({j \in 1..Len(a) : a[j] # b[j]})

\* _phash(image_path): the fingerprint, or None when PIL fails on the image.
PhashResults(image) == IF image = CorruptImage THEN {NoHash} ELSE {FingerprintOf(image)}

\* A bug: a new frame is compared with the last kept fingerprint only.
IsDuplicateOfLast(new_hash, kept_hashes, threshold) ==
    IF new_hash = NoHash THEN FALSE
    ELSE /\ kept_hashes # <<>>
         /\ kept_hashes[Len(kept_hashes)] # NoHash
         /\ Hamming(new_hash, kept_hashes[Len(kept_hashes)]) < threshold

\* _is_duplicate(new_hash, kept_hashes, threshold), lines 79-82.
is_duplicate(new_hash, kept_hashes, threshold) ==
    IF new_hash = NoHash THEN FALSE
    ELSE \E k \in 1..Len(kept_hashes) :
             /\ kept_hashes[k] # NoHash
             /\ Hamming(new_hash, kept_hashes[k]) < threshold

\* Segment.midpoint is (start + end) / 2, a half-integer on the integer time
\* grid: timestamps are kept doubled.
midpoint2(seg) == seg.start + seg.end

\* int(ts) for ts = seg.midpoint >= 0.
IntMidpoint(seg) == (seg.start + seg.end) \div 2

\* A bug: the file is named after the whole second of the instant alone.
FramePathBySecond(idx, seg) == <<0, IntMidpoint(seg)>>

\* output_dir / f"frame_{idx:04d}_{int(ts):05d}.jpg": told apart by idx and int(ts).
frame_path(idx, seg) == <<idx, IntMidpoint(seg)>>

\* Frame(path=frame_path, timestamp=ts, segment_index=idx)
Frame(idx, seg) ==
    [path |-> frame_path(idx, seg), timestamp2 |-> midpoint2(seg), segment_index |-> idx]

\* A bug: the loop stops only once more than max_frames frames are kept.
LimitReachedLate(kept_frames, max_frames) == Len(kept_frames) > max_frames

\* `if len(kept_frames) >= max_frames: break`, lines 142-143.
LimitReached(kept_frames, max_frames) == Len(kept_frames) >= max_frames

\* The candidate of the current iteration: idx (0-based) and segments[idx].
CurIdx == ef_candidates[ef_pos]
CurSeg == ef_segments[CurIdx + 1]

\* The iteration reaches the frame grab (lines 141-149).
InLoopBody ==
    /\ ef_pc = "loop"
    /\ ef_pos <= Len(ef_candidates)
    /\ ~LimitReached(ef_kept_frames, ef_max_frames)

\* n consecutive segments, segment i spanning [i-1, i].
FrameSegments(n) == SegmentsOf([i \in 1..n |-> <<i - 1, i>>])

\* The same n segments listed latest first, as a caller may pass them.
FrameSegmentsReversed(n) == SegmentsOf([i \in 1..n |-> <<n - i, n - i + 1>>])

\* Lists of n instants half a second after a whole second, given doubled:
\* -0.5, 0.5, 1.5, ... in ascending order, and the same in descending order.
TimestampLists ==
    {[i \in 1..n |-> 2 * i - 3] : n \in 0..MaxFrames}
        \cup {[i \in 1..n |-> 2 * (n - i) - 1] : n \in 0..MaxFrames}

\* extract_frames_at_timestamps, line 174: one segment from max(0.0, t - 0.5)
\* to t + 0.5 per instant t (t2 is t doubled), each with the empty text.
SegmentsAtTimestamps(timestamps2) ==
    [i \in 1..Len(timestamps2) |->
        LET t2 == timestamps2[i] IN
        [start |-> IF t2 - 1 < 0 THEN 0 ELSE (t2 - 1) \div 2,
         end |-> (t2 + 1) \div 2,
         text |-> ""]]

\* The call, with the arguments drawn from the bounded sets: extract_frames
\* called directly, or by extract_frames_at_timestamps with
\* max_frames=len(timestamps).
InitFrames ==
    /\ ChunkIdle
    /\ MergeIdle
    /\ MonoIdle
    /\ SelectIdle
    /\ RepairIdle
    /\ ResultsIdle
    /\ SrtIdle
    /\ PairIdle
    /\ ScanIdle
    /\ PipeIdle
    /\ StreamIdle
    /\ \/ /\ ef_segments \in {FrameSegments(n) : n \in 0..MaxFrameSegs}
                                \cup {FrameSegmentsReversed(n) : n \in 0..MaxFrameSegs}
          /\ ef_max_frames \in 0..MaxFrames
       \/ \E timestamps2 \in TimestampLists :
            /\ ef_segments = SegmentsAtTimestamps(timestamps2)
            /\ ef_max_frames = Len(timestamps2)
    /\ ef_threshold \in 0..HashBits
    /\ ef_candidates = <<>>
    /\ ef_pos = 0
    /\ ef_kept_frames = <<>>
    /\ ef_kept_hashes = <<>>
    /\ ef_files = {}
    /\ ef_event = NoEvent
    /\ ef_seen = {}
    /\ ef_unlinked = {}
    /\ ef_pc = "call"

\* Lines 129-139: no segments returns []; a missing ffmpeg raises; otherwise
\* the candidates are selected (which raises when max_frames * 3 is 0).
FramesEnter ==
    /\ ef_pc = "call"
    /\ IF ef_segments = <<>>
       THEN /\ ef_pc' = "done"
            /\ UNCHANGED <<ef_candidates, ef_pos, ef_event>>
       ELSE \E ffmpeg_found \in BOOLEAN :
            LET sel == select_candidates(Len(ef_segments), ef_max_frames * 3) IN
            IF ~ffmpeg_found
            THEN /\ ef_pc' = "raised"
                 /\ ef_event' = [op |-> "EnvironmentError", idx |-> 0, hash |-> NoHash]
                 /\ UNCHANGED <<ef_candidates, ef_pos>>
            ELSE IF sel.raised # ""
            THEN /\ ef_pc' = "raised"
                 /\ ef_event' = [op |-> sel.raised, idx |-> 0, hash |-> NoHash]
                 /\ UNCHANGED <<ef_candidates, ef_pos>>
            ELSE /\ ef_candidates' = sel.value
                 /\ ef_pos' = 1
                 /\ ef_pc' = "loop"
                 /\ UNCHANGED ef_event
    /\ UNCHANGED <<ef_segments, ef_max_frames, ef_threshold, ef_kept_frames,
                   ef_kept_hashes, ef_files, ef_seen, ef_unlinked>>
    /\ UNCHANGED <<vChunk, vMerge, vMono, vSelect, vRepair, vResults, vSrt, vPair, vScan, vPipe,
                   vStream>>

\* Line 149: subprocess.run (line 63) raises OSError, ffmpeg being found but
\* not runnable; the exception leaves extract_frames from inside the loop.
FramesGrabRaises ==
    /\ InLoopBody
    /\ ef_event' = [op |-> "OSError", idx |-> CurIdx, hash |-> NoHash]
    /\ ef_pc' = "raised"
    /\ UNCHANGED <<ef_segments, ef_max_frames, ef_threshold, ef_candidates, ef_pos,
                   ef_kept_frames, ef_kept_hashes, ef_files, ef_seen, ef_unlinked>>
    /\ UNCHANGED <<vChunk, vMerge, vMono, vSelect, vRepair, vResults, vSrt, vPair, vScan, vPipe,
                   vStream>>

\* Lines 149-150: _extract_single_frame returns False; the candidate is skipped.
\* ffmpeg, run with -y, has written nothing or has left an empty or partial
\* file at the path it was given (lines 56-64).
FramesGrabFailed ==
    /\ InLoopBody
    /\ ef_event' = [op |-> "grab_failed", idx |-> CurIdx, hash |-> NoHash]
    /\ UNCHANGED <<ef_seen, ef_unlinked>>
    /\ ef_pos' = ef_pos + 1
    /\ \E wrote \in BOOLEAN :
        ef_files' = IF wrote
                    THEN {f \in ef_files : f.path # frame_path(CurIdx, CurSeg)}
                            \cup {[path |-> frame_path(CurIdx, CurSeg), image |-> EmptyFile]}
                    ELSE ef_files
    /\ UNCHANGED <<ef_segments, ef_max_frames, ef_threshold, ef_candidates,
                   ef_kept_frames, ef_kept_hashes, ef_pc>>
    /\ UNCHANGED <<vChunk, vMerge, vMono, vSelect, vRepair, vResults, vSrt, vPair, vScan, vPipe,
                   vStream>>

\* Lines 149-156: the grab wrote an image, and _is_duplicate holds of its
\* fingerprint: the file is unlinked and the candidate skipped.
FramesDiscard ==
    /\ InLoopBody
    /\ \E image \in Images : \E phash \in PhashResults(image) :
        /\ is_duplicate(phash, ef_kept_hashes, ef_threshold)
        /\ ef_files' = {f \in ef_files : f.path # frame_path(CurIdx, CurSeg)}
        /\ ef_event' = [op |-> "duplicate", idx |-> CurIdx, hash |-> phash]
        /\ ef_seen' = ef_seen \cup {[image |-> image, hashed |-> phash # NoHash]}
    /\ ef_unlinked' = ef_unlinked \cup {frame_path(CurIdx, CurSeg)}
    /\ ef_pos' = ef_pos + 1
    /\ UNCHANGED <<ef_segments, ef_max_frames, ef_threshold, ef_candidates,
                   ef_kept_frames, ef_kept_hashes, ef_pc>>
    /\ UNCHANGED <<vChunk, vMerge, vMono, vSelect, vRepair, vResults, vSrt, vPair, vScan, vPipe,
                   vStream>>

\* Lines 149-159: the grab wrote an image, and _is_duplicate does not hold of
\* its fingerprint: the fingerprint and the Frame are appended.
FramesKeep ==
    /\ InLoopBody
    /\ \E image \in Images : \E phash \in PhashResults(image) :
        /\ ~is_duplicate(phash, ef_kept_hashes, ef_threshold)
        /\ ef_files' = {f \in ef_files : f.path # frame_path(CurIdx, CurSeg)}
                          \cup {[path |-> frame_path(CurIdx, CurSeg), image |-> image]}
        /\ ef_kept_hashes' = Append(ef_kept_hashes, phash)
        /\ ef_kept_frames' = Append(ef_kept_frames, Frame(CurIdx, CurSeg))
        /\ ef_event' = [op |-> "kept", idx |-> CurIdx, hash |-> phash]
        /\ ef_seen' = ef_seen \cup {[image |-> image, hashed |-> phash # NoHash]}
    /\ ef_pos' = ef_pos + 1
    /\ UNCHANGED <<ef_segments, ef_max_frames, ef_threshold, ef_candidates, ef_unlinked,
                   ef_pc>>
    /\ UNCHANGED <<vChunk, vMerge, vMono, vSelect, vRepair, vResults, vSrt, vPair, vScan, vPipe,
                   vStream>>

\* Lines 141-143 and 161: the candidates are exhausted, or max_frames frames
\* are kept and the loop breaks; kept_frames is returned.
FramesReturn ==
    /\ ef_pc = "loop"
    /\ \/ ef_pos > Len(ef_candidates)
       \/ LimitReached(ef_kept_frames, ef_max_frames)
    /\ ef_pc' = "done"
    /\ ef_event' = [op |-> "return", idx |-> 0, hash |-> NoHash]
    /\ UNCHANGED <<ef_seen, ef_unlinked>>
    /\ UNCHANGED <<ef_segments, ef_max_frames, ef_threshold, ef_candidates, ef_pos,
                   ef_kept_frames, ef_kept_hashes, ef_files>>
    /\ UNCHANGED <<vChunk, vMerge, vMono, vSelect, vRepair, vResults, vSrt, vPair, vScan, vPipe,
                   vStream>>

NextFrames ==
    \/ FramesEnter
    \/ FramesGrabRaises
    \/ FramesGrabFailed
    \/ FramesDiscard
    \/ FramesKeep
    \/ FramesReturn

SpecFrames == InitFrames /\ [][NextFrames]_vars

\* The candidate processed by the last step was grabbed and fingerprinted.
FrameJudged == ef_event'.op \in {"kept", "duplicate"} /\ ef_pos' = ef_pos + 1

\* A fingerprint is far from every kept, non-missing fingerprint.
FarFromKept(h, kept_hashes, threshold) ==
    \A k \in 1..Len(kept_hashes) :
        kept_hashes[k] # NoHash => Hamming(h, kept_hashes[k]) >= threshold

C6_StepRule ==
    FrameJudged =>
        LET h == ef_event'.hash IN
        /\ Len(ef_kept_frames) < ef_max_frames
        /\ IF h = NoHash \/ FarFromKept(h, ef_kept_hashes, ef_threshold)
           THEN /\ ef_event'.op = "kept"
                /\ ef_kept_hashes' = Append(ef_kept_hashes, h)
                /\ ef_kept_frames' = Append(ef_kept_frames, Frame(CurIdx, CurSeg))
           ELSE /\ ef_event'.op = "duplicate"
                /\ UNCHANGED <<ef_kept_hashes, ef_kept_frames>>
                /\ \A f \in ef_files' : f.path # frame_path(CurIdx, CurSeg)

C6_KeptApart ==
    /\ Len(ef_kept_hashes) = Len(ef_kept_frames)
    /\ \A j, k \in 1..Len(ef_kept_hashes) :
        (j # k /\ ef_kept_hashes[j] # NoHash /\ ef_kept_hashes[k] # NoHash)
            => Hamming(ef_kept_hashes[j], ef_kept_hashes[k]) >= ef_threshold

\* C6: a grabbed frame, processed while fewer than max_frames are kept, is kept
\* iff its fingerprint is missing or at Hamming distance >= dedup_threshold
\* from every kept, non-missing fingerprint, and is discarded otherwise; so
\* any two kept fingerprints are at distance >= dedup_threshold, and a kept
\* frame without a fingerprint never makes a later frame a duplicate.
C6_KeepIffFar == [][C6_StepRule]_vars /\ []C6_KeptApart

\* A frame was discarded as a duplicate of a fingerprinted kept frame while a
\* frame without a fingerprint is among the kept ones.
C6_Witness ==
    /\ ef_event.op = "duplicate"
    /\ ef_threshold >= 1
    /\ \E k \in 1..Len(ef_kept_hashes) : ef_kept_hashes[k] = NoHash
    /\ \E k \in 1..Len(ef_kept_hashes) : ef_kept_hashes[k] # NoHash

\* Once max_frames frames are kept, the only step is the return: no candidate
\* is grabbed, fingerprinted or unlinked, and nothing is kept.
C7_StepRule ==
    (ef_pc \in {"loop", "done"} /\ Len(ef_kept_frames) >= ef_max_frames) =>
        /\ UNCHANGED <<ef_pos, ef_files, ef_kept_frames, ef_kept_hashes>>
        /\ ef_event'.op \notin {"grab_failed", "duplicate", "kept"}
        /\ ef_pc' = "done"

\* C7: extract_frames never keeps more than max_frames frames, and once
\* max_frames frames are kept no later candidate is processed.
C7_StopAtLimit ==
    [](Len(ef_kept_frames) <= ef_max_frames) /\ [][C7_StepRule]_vars

\* The call returned max_frames >= 1 frames with candidates left unprocessed.
C7_Witness ==
    /\ ef_pc = "done"
    /\ ef_max_frames >= 1
    /\ Len(ef_kept_frames) = ef_max_frames
    /\ ef_pos <= Len(ef_candidates)

\* The pixel contents of the images grabbed so far.
GrabbedImages == {r.image : r \in ef_seen}

\* At least one grab succeeded and all grabbed images are pixel-identical.
AllIdentical == ef_seen # {} /\ Cardinality(GrabbedImages) = 1

\* Every grabbed image was fingerprinted.
AllFingerprinted == \A r \in ef_seen : r.hashed

\* The last step kept a frame.
FrameKept == ef_event'.op = "kept" /\ ef_pos' = ef_pos + 1

\* The image kept by the last step is identical to none grabbed before.
KeptImageIsNew == {r.image : r \in ef_seen'} # GrabbedImages

C18_OneOfIdentical ==
    (AllIdentical /\ ef_max_frames >= 1) => Len(ef_kept_frames) = 1

C18_FirstOnly == FrameKept => KeptImageIsNew

\* C18 as stated: when all grabbed images are pixel-identical (at least one
\* grab succeeded, max_frames >= 1) exactly one frame is kept, whatever
\* dedup_threshold is and whether or not fingerprinting succeeds; and an image
\* identical to one grabbed earlier is never kept.
C18_IdenticalKeptOnce == []C18_OneOfIdentical /\ [][C18_FirstOnly]_vars

C18_OneOfIdenticalFingerprinted ==
    (AllIdentical /\ AllFingerprinted /\ ef_threshold >= 1 /\ ef_max_frames >= 1)
        => Len(ef_kept_frames) = 1

C18_FirstOnlyFingerprinted ==
    (FrameKept /\ ef_threshold >= 1 /\ ef_event'.hash # NoHash) => KeptImageIsNew

\* C18, amended: with dedup_threshold >= 1, when all grabbed images are
\* pixel-identical and fingerprinted (at least one grab succeeded,
\* max_frames >= 1) exactly one frame is kept; and a fingerprinted image
\* identical to one grabbed earlier is never kept.
C18_IdenticalFingerprintedKeptOnce ==
    []C18_OneOfIdenticalFingerprinted /\ [][C18_FirstOnlyFingerprinted]_vars

\* An image identical to the one kept before was just discarded, all grabbed
\* images being identical and fingerprinted.
C18_Witness ==
    /\ ef_event.op = "duplicate"
    /\ ef_threshold >= 1
    /\ AllIdentical
    /\ AllFingerprinted
    /\ ef_kept_hashes = <<ef_event.hash>>
    /\ Len(ef_kept_frames) = 1

\* Each kept frame carries the index and the midpoint of its segment.
C19_Tagged ==
    \A k \in 1..Len(ef_kept_frames) :
        LET frame == ef_kept_frames[k] IN
        /\ frame.segment_index \in 0..(Len(ef_segments) - 1)
        /\ frame.timestamp2 = midpoint2(ef_segments[frame.segment_index + 1])

C19_IndicesIncrease ==
    \A j, k \in 1..Len(ef_kept_frames) :
        j < k => ef_kept_frames[j].segment_index < ef_kept_frames[k].segment_index

C19_TimesNonDecreasing ==
    \A j, k \in 1..Len(ef_kept_frames) :
        j < k => ef_kept_frames[j].timestamp2 <= ef_kept_frames[k].timestamp2

\* C19: the kept frames, and so the list returned, have non-decreasing
\* timestamps, each frame carries the midpoint and the index of its segment,
\* and the segment indices are strictly increasing.
C19_Chronological == C19_Tagged /\ C19_IndicesIncrease /\ C19_TimesNonDecreasing

\* The last step was a failed grab.
GrabFailed == ef_event'.op = "grab_failed" /\ ef_pos' = ef_pos + 1

C20_StepRule ==
    GrabFailed =>
        /\ UNCHANGED <<ef_kept_frames, ef_kept_hashes>>
        /\ {f \in ef_files' : f.path # frame_path(CurIdx, CurSeg)}
                = {f \in ef_files : f.path # frame_path(CurIdx, CurSeg)}
        /\ ef_pc' = "loop"
        /\ ef_pos <= Len(ef_candidates)
        /\ \A p \in ef_pos'..Len(ef_candidates) : ef_candidates[p] # ef_candidates[ef_pos]

C20_NoneGrabbed ==
    (ef_pc = "done" /\ ef_seen = {}) => ef_kept_frames = <<>>

\* C20: a failed grab changes neither the kept frames nor the kept
\* fingerprints and moves on to the next candidate, the failed one never
\* being tried again; a call in which no grab succeeds returns the empty
\* list; no grab ends the call with an exception, so that none is raised
\* once the loop has begun.
C20_FailedGrabSkipped ==
    /\ [][C20_StepRule]_vars
    /\ [](C20_NoneGrabbed /\ (ef_pc = "raised" => ef_pos = 0))

\* The files in output_dir at a path.
FilesAt(files, path) == {f \in files : f.path = path}

\* The file of the k-th kept frame is in place and holds the image that was
\* fingerprinted when the frame was kept.
KeptFileInPlace(k) ==
    \E f \in ef_files :
        /\ FilesAt(ef_files, ef_kept_frames[k].path) = {f}
        /\ f.image \in Images
        /\ PhashResults(f.image) = {ef_kept_hashes[k]}

C21_Files ==
    /\ \A path \in ef_unlinked : FilesAt(ef_files, path) = {}
    /\ \A k \in 1..Len(ef_kept_frames) : KeptFileInPlace(k)

C21_StepRule ==
    \A k \in 1..Len(ef_kept_frames) :
        FilesAt(ef_files', ef_kept_frames[k].path) = FilesAt(ef_files, ef_kept_frames[k].path)

\* C21: at every point of the call, hence when it returns, no file is left at
\* the path of a frame discarded as a duplicate, and the file of every kept
\* frame is at the path recorded in the Frame with the image it was kept for;
\* no step deletes or rewrites the file of a frame kept before it.
C21_FilesOfKeptAndDiscarded == []C21_Files /\ [][C21_StepRule]_vars

\* The call returned two or more kept frames, having discarded a duplicate
\* and with a file left behind by a failed grab.
C21_Witness ==
    /\ ef_pc = "done"
    /\ Len(ef_kept_frames) >= 2
    /\ ef_unlinked # {}
    /\ \E f \in ef_files : f.image = EmptyFile

-----------------------------------------------------------------------------
(* analyzer._escape_json_strings and analyzer._parse_json_response.        *)
(* A text is the sequence of its characters, each a one-character string;   *)
(* the backtick, which a TLA+ string cannot hold, and the line separator     *)
(* U+2028 are written by their names.                                       *)

QUOTE == "\""
BACKSLASH == "\\"
LF == "\n"
CR == "\r"
TAB == "\t"
SPACE == " "
BACKTICK == "BACKTICK"
LS == "LS"

\* The characters that the lookahead of the scan skips and that json.loads
\* takes as whitespace: space, tab, carriage return, newline. str.strip()
\* removes these and LS.
Whitespace == {SPACE, TAB, CR, LF}

\* The characters after which the scan takes a quote as closing (line 270).
Structural == {",", "}", "]", ":"}

\* The first position at or after i that holds no whitespace; Len(s) + 1 if
\* there is none (the lookahead loop of lines 267-269).
SkipWhitespace(s, i) ==
    CHOOSE j \in i..(Len(s) + 1) :
        /\ j = Len(s) + 1 \/ s[j] \notin Whitespace
        /\ \A m \in i..(j - 1) : s[m] \in Whitespace

\* raw.strip()
Strip(s) ==
    LET inside == {i \in 1..Len(s) : s[i] \notin Whitespace \cup {LS}} IN
    IF inside = {} THEN <<>>
    ELSE SubSeq(s, CHOOSE i \in inside : \A m \in inside : i <= m,
                   CHOOSE i \in inside : \A m \in inside : i >= m)

\* raw.startswith(p)
StartsWith(s, p) == Len(s) >= Len(p) /\ SubSeq(s, 1, Len(p)) = p

\* raw.endswith(p)
EndsWith(s, p) == Len(s) >= Len(p) /\ SubSeq(s, Len(s) - Len(p) + 1, Len(s)) = p

\* raw.rfind(p): the highest 0-based index at which p occurs, or -1.
RFind(s, p) ==
    LET at == {i \in 0..(Len(s) - Len(p)) : SubSeq(s, i + 1, i + Len(p)) = p} IN
    IF at = {} THEN -1 ELSE CHOOSE i \in at : \A m \in at : i >= m

RECURSIVE SplitLines(_)
\* raw.splitlines(): the lines of a text, broken at LF, CR, CR LF and LS; a line
\* break at the end opens no further line.
SplitLines(s) ==
    LET breaks == {i \in 1..Len(s) : s[i] \in {LF, CR, LS}} IN
    IF s = <<>> THEN <<>>
    ELSE IF breaks = {} THEN <<s>>
    ELSE LET b == CHOOSE i \in breaks : \A m \in breaks : i <= m
             e == IF s[b] = CR /\ b < Len(s) /\ s[b + 1] = LF THEN b + 1 ELSE b
         IN <<SubSeq(s, 1, b - 1)>> \o SplitLines(SubSeq(s, e + 1, Len(s)))

RECURSIVE JoinLines(_)
\* The join of the lines with LF between them (line 296).
JoinLines(lines) ==
    IF lines = <<>> THEN <<>>
    ELSE IF Len(lines) = 1 THEN lines[1]
    ELSE lines[1] \o <<LF>> \o JoinLines(Tail(lines))

\* The markdown fence, three backticks.
Fence == <<BACKTICK, BACKTICK, BACKTICK>>

\* Lines 294-298: strip, drop the line of an opening fence, cut at a closing fence.
StripFences(raw) ==
    LET stripped == Strip(raw)
        opened == IF StartsWith(stripped, Fence)
                  THEN JoinLines(Tail(SplitLines(stripped)))
                  ELSE stripped
    IN IF EndsWith(opened, Fence)
       THEN SubSeq(opened, 1, RFind(opened, Fence))
       ELSE opened

\* A bug: a literal newline inside a string is passed through unescaped.
ScanBodyKeepsNewline(st, raw) ==
    LET n == Len(raw)
        i == st.i
        ch == raw[i]
        emit(chars, in_string, step) ==
            [i |-> i + step, in_string |-> in_string, result |-> st.result \o chars]
    IN IF st.in_string
       THEN IF ch = BACKSLASH /\ i + 1 <= n THEN emit(<<ch, raw[i + 1]>>, TRUE, 2)
            ELSE IF ch = QUOTE
            THEN LET j == SkipWhitespace(raw, i + 1) IN
                 IF j > n \/ raw[j] \in Structural
                 THEN emit(<<QUOTE>>, FALSE, 1)
                 ELSE emit(<<BACKSLASH, QUOTE>>, TRUE, 1)
            ELSE IF ch = CR THEN emit(<<BACKSLASH, "r">>, TRUE, 1)
            ELSE IF ch = TAB THEN emit(<<BACKSLASH, "t">>, TRUE, 1)
            ELSE emit(<<ch>>, TRUE, 1)
       ELSE IF ch = QUOTE THEN emit(<<QUOTE>>, TRUE, 1)
            ELSE emit(<<ch>>, FALSE, 1)

\* A bug: the lookahead does not skip whitespace after a quote.
ScanBodyNoSkip(st, raw) ==
    LET n == Len(raw)
        i == st.i
        ch == raw[i]
        emit(chars, in_string, step) ==
            [i |-> i + step, in_string |-> in_string, result |-> st.result \o chars]
    IN IF st.in_string
       THEN IF ch = BACKSLASH /\ i + 1 <= n THEN emit(<<ch, raw[i + 1]>>, TRUE, 2)
            ELSE IF ch = QUOTE
            THEN LET j == i + 1 IN
                 IF j > n \/ raw[j] \in Structural
                 THEN emit(<<QUOTE>>, FALSE, 1)
                 ELSE emit(<<BACKSLASH, QUOTE>>, TRUE, 1)
            ELSE IF ch = LF THEN emit(<<BACKSLASH, "n">>, TRUE, 1)
            ELSE IF ch = CR THEN emit(<<BACKSLASH, "r">>, TRUE, 1)
            ELSE IF ch = TAB THEN emit(<<BACKSLASH, "t">>, TRUE, 1)
            ELSE emit(<<ch>>, TRUE, 1)
       ELSE IF ch = QUOTE THEN emit(<<QUOTE>>, TRUE, 1)
            ELSE emit(<<ch>>, FALSE, 1)

\* A bug: a backslash inside a string is itself escaped.
ScanBodyDoublesBackslash(st, raw) ==
    LET n == Len(raw)
        i == st.i
        ch == raw[i]
        emit(chars, in_string, step) ==
            [i |-> i + step, in_string |-> in_string, result |-> st.result \o chars]
    IN IF st.in_string
       THEN IF ch = BACKSLASH THEN emit(<<BACKSLASH, BACKSLASH>>, TRUE, 1)
            ELSE IF ch = QUOTE
            THEN LET j == SkipWhitespace(raw, i + 1) IN
                 IF j > n \/ raw[j] \in Structural
                 THEN emit(<<QUOTE>>, FALSE, 1)
                 ELSE emit(<<BACKSLASH, QUOTE>>, TRUE, 1)
            ELSE IF ch = LF THEN emit(<<BACKSLASH, "n">>, TRUE, 1)
            ELSE IF ch = CR THEN emit(<<BACKSLASH, "r">>, TRUE, 1)
            ELSE IF ch = TAB THEN emit(<<BACKSLASH, "t">>, TRUE, 1)
            ELSE emit(<<ch>>, TRUE, 1)
       ELSE IF ch = QUOTE THEN emit(<<QUOTE>>, TRUE, 1)
            ELSE emit(<<ch>>, FALSE, 1)

\* One iteration of the while loop of _escape_json_strings, lines 255-287, on
\* the loop state st = [i, in_string, result] with i a 1-based position.
ScanBody(st, raw) ==
    LET n == Len(raw)
        i == st.i
        ch == raw[i]
        emit(chars, in_string, step) ==
            [i |-> i + step, in_string |-> in_string, result |-> st.result \o chars]
    IN IF st.in_string
       THEN IF ch = BACKSLASH /\ i + 1 <= n THEN emit(<<ch, raw[i + 1]>>, TRUE, 2)
            ELSE IF ch = QUOTE
            THEN LET j == SkipWhitespace(raw, i + 1) IN
                 IF j > n \/ raw[j] \in Structural
                 THEN emit(<<QUOTE>>, FALSE, 1)
                 ELSE emit(<<BACKSLASH, QUOTE>>, TRUE, 1)
            ELSE IF ch = LF THEN emit(<<BACKSLASH, "n">>, TRUE, 1)
            ELSE IF ch = CR THEN emit(<<BACKSLASH, "r">>, TRUE, 1)
            ELSE IF ch = TAB THEN emit(<<BACKSLASH, "t">>, TRUE, 1)
            ELSE emit(<<ch>>, TRUE, 1)
       ELSE IF ch = QUOTE THEN emit(<<QUOTE>>, TRUE, 1)
            ELSE emit(<<ch>>, FALSE, 1)

\* Lines 250-253: the loop state before the first iteration.
ScanStart == [i |-> 1, in_string |-> FALSE, result |-> <<>>]

RECURSIVE ScanLoop(_, _)
\* `while i < n`, lines 255-287.
ScanLoop(st, raw) == IF st.i > Len(raw) THEN st ELSE ScanLoop(ScanBody(st, raw), raw)

\* _escape_json_strings(raw)
escape_json_strings(raw) == ScanLoop(ScanStart, raw).result

-----------------------------------------------------------------------------
(* json.loads (strict, the default), on objects whose values are strings.  *)

\* The dict d with d[key] = value set.
DictPut(d, key, value) == [k \in DOMAIN d \cup {key} |-> IF k = key THEN value ELSE d[k]]

\* What a decoding step yields: a value and the position after it, or an error.
Decoded(value, end) == [ok |-> TRUE, error |-> "", value |-> value, end |-> end]
DecodeError == [ok |-> FALSE, error |-> "JSONDecodeError", value |-> <<>>, end |-> 0]
\* Valid JSON outside the part of json.loads that is modelled (nested values,
\* numbers, literals, escapes of characters outside the alphabet).
Unmodelled == [ok |-> FALSE, error |-> "unmodelled", value |-> <<>>, end |-> 0]

\* json.decoder.BACKSLASH, for the characters of the alphabet.
BackslashEscapes ==
    [c \in {QUOTE, BACKSLASH, "/", "n", "r", "t"} |->
        CASE c = "n" -> LF
          [] c = "r" -> CR
          [] c = "t" -> TAB
          [] OTHER -> c]

\* The characters below 0x20, which a strict decoder rejects inside a string.
ControlChars == {LF, CR, TAB}

RECURSIVE ScanString(_, _, _)
\* json.decoder.scanstring(s, end): the string whose opening quote precedes
\* position i, decoded; acc holds the characters decoded so far.
ScanString(s, i, acc) ==
    IF i > Len(s) THEN DecodeError
    ELSE IF s[i] = QUOTE THEN Decoded(acc, i + 1)
    ELSE IF s[i] = BACKSLASH
    THEN IF i + 1 > Len(s) THEN DecodeError
         ELSE IF s[i + 1] \in DOMAIN BackslashEscapes
         THEN ScanString(s, i + 2, Append(acc, BackslashEscapes[s[i + 1]]))
         ELSE IF s[i + 1] \in {"b", "f", "u"} THEN Unmodelled
         ELSE DecodeError
    ELSE IF s[i] \in ControlChars THEN DecodeError
    ELSE ScanString(s, i + 1, Append(acc, s[i]))

\* The decimal digits.
Digits == {"0", "1", "2", "3", "4", "5", "6", "7", "8", "9"}

\* A value that is not a string starts at position i: a nested object or
\* array, a number (a digit, or a minus sign before a digit) or a literal.
OtherValueAt(s, i) ==
    \/ s[i] \in {"{", "["} \cup Digits
    \/ s[i] = "-" /\ i + 1 <= Len(s) /\ s[i + 1] \in Digits
    \/ \E word \in {<<"n", "u", "l", "l">>, <<"t", "r", "u", "e">>,
                    <<"f", "a", "l", "s", "e">>, <<"N", "a", "N">>,
                    <<"I", "n", "f", "i", "n", "i", "t", "y">>,
                    <<"-", "I", "n", "f", "i", "n", "i", "t", "y">>} :
           StartsWith(SubSeq(s, i, Len(s)), word)

RECURSIVE JsonMembers(_, _, _)
\* The loop of json.decoder.JSONObject: the members from the key whose opening
\* quote precedes position i on, added to pairs.
JsonMembers(s, i, pairs) ==
    LET key == ScanString(s, i, <<>>)
        colon == SkipWhitespace(s, key.end)
        at == SkipWhitespace(s, colon + 1)
        value == ScanString(s, at + 1, <<>>)
        delim == SkipWhitespace(s, value.end)
        name == SkipWhitespace(s, delim + 1)
    IN IF ~key.ok THEN key
       ELSE IF colon > Len(s) \/ s[colon] # ":" THEN DecodeError
       ELSE IF at > Len(s) THEN DecodeError
       ELSE IF s[at] # QUOTE
       THEN IF OtherValueAt(s, at) THEN Unmodelled ELSE DecodeError
       ELSE IF ~value.ok THEN value
       ELSE IF delim > Len(s) THEN DecodeError
       ELSE IF s[delim] = "}"
       THEN Decoded(DictPut(pairs, key.value, value.value), delim + 1)
       ELSE IF s[delim] # "," THEN DecodeError
       ELSE IF name > Len(s) \/ s[name] # QUOTE THEN DecodeError
       ELSE JsonMembers(s, name + 1, DictPut(pairs, key.value, value.value))

\* json.decoder.JSONObject: the object whose opening brace precedes position i.
JsonObject(s, i) ==
    LET first == SkipWhitespace(s, i) IN
    IF first > Len(s) THEN DecodeError
    ELSE IF s[first] = "}" THEN Decoded(EmptyDict, first + 1)
    ELSE IF s[first] # QUOTE THEN DecodeError
    ELSE JsonMembers(s, first + 1, EmptyDict)

\* json.loads(s): the mapping, or the error raised. Whitespace may surround
\* the value; anything else after it is an error.
JsonLoads(s) ==
    LET start == SkipWhitespace(s, 1)
        obj == JsonObject(s, start + 1)
    IN IF start > Len(s) THEN [ok |-> FALSE, error |-> "JSONDecodeError", value |-> <<>>]
       ELSE IF s[start] # "{"
       THEN IF s[start] = QUOTE \/ OtherValueAt(s, start)
            THEN [ok |-> FALSE, error |-> "unmodelled", value |-> <<>>]
            ELSE [ok |-> FALSE, error |-> "JSONDecodeError", value |-> <<>>]
       ELSE IF ~obj.ok THEN [ok |-> FALSE, error |-> obj.error, value |-> <<>>]
       ELSE IF SkipWhitespace(s, obj.end) <= Len(s)
       THEN [ok |-> FALSE, error |-> "JSONDecodeError", value |-> <<>>]
       ELSE [ok |-> TRUE, error |-> "", value |-> obj.value]

\* _parse_json_response(raw), lines 294-299.
parse_json_response(raw) == JsonLoads(escape_json_strings(StripFences(raw)))

-----------------------------------------------------------------------------
(* _parse_json_response on the responses of the bounded model.             *)

MaxValueLen == 3

\* The characters of the string values: a letter, the four characters whose
\* escapes the repair restores, two structural characters, the backslash and
\* the line separator, which JSON allows inside a string.
ValueChars == {"a", QUOTE, LF, CR, TAB, ",", "}", BACKSLASH, LS}

\* The JSON escape of one character of a string (json.dumps).
EscapeChar(c) ==
    CASE c = QUOTE -> <<BACKSLASH, QUOTE>>
      [] c = BACKSLASH -> <<BACKSLASH, BACKSLASH>>
      [] c = LF -> <<BACKSLASH, "n">>
      [] c = CR -> <<BACKSLASH, "r">>
      [] c = TAB -> <<BACKSLASH, "t">>
      [] OTHER -> <<c>>

\* The JSON string literal of a string: quoted, every character escaped.
JsonString(str) == <<QUOTE>> \o Flatten([k \in 1..Len(str) |-> EscapeChar(str[k])]) \o <<QUOTE>>

\* A valid JSON text: the object {"k": value}, or {"k": value, "j": "a"}.
OriginalText(value, members) ==
    <<"{">> \o JsonString(<<"k">>) \o <<":", SPACE>> \o JsonString(value)
        \o (IF members = 2
            THEN <<",", SPACE>> \o JsonString(<<"j">>) \o <<":", SPACE>> \o JsonString(<<"a">>)
            ELSE <<>>)
        \o <<"}">>

RECURSIVE Unescape(_)
\* A JSON text with the escapes of newline, carriage return, tab and double
\* quote replaced by the literal characters, as a careless producer emits it.
Unescape(text) ==
    IF text = <<>> THEN <<>>
    ELSE IF text[1] = BACKSLASH /\ Len(text) >= 2
    THEN (CASE text[2] = "n" -> <<LF>>
            [] text[2] = "r" -> <<CR>>
            [] text[2] = "t" -> <<TAB>>
            [] text[2] = QUOTE -> <<QUOTE>>
            [] OTHER -> <<text[1], text[2]>>) \o Unescape(SubSeq(text, 3, Len(text)))
    ELSE <<text[1]>> \o Unescape(Tail(text))

\* The response as the caller receives it: the text alone, surrounded by
\* whitespace, inside a markdown fence, or cut short before its last character.
Wrap(wrap, text) ==
    CASE wrap = "padded" -> <<LF, SPACE>> \o text \o <<SPACE, LF>>
      [] wrap = "truncated" -> SubSeq(text, 1, Len(text) - 1)
      [] wrap = "fenced" -> Fence \o <<"j", "s", "o", "n", LF>> \o text \o <<LF>> \o Fence
      [] OTHER -> text

\* The call _parse_json_response(raw), with raw made from a valid JSON text.
InitRepair ==
    /\ ChunkIdle
    /\ MergeIdle
    /\ MonoIdle
    /\ SelectIdle
    /\ FramesIdle
    /\ ResultsIdle
    /\ SrtIdle
    /\ PairIdle
    /\ ScanIdle
    /\ PipeIdle
    /\ StreamIdle
    /\ \E value \in SeqsUpTo(ValueChars, MaxValueLen) : \E members \in 1..2 :
           rp_original = OriginalText(value, members)
    /\ rp_wrap \in {"bare", "padded", "fenced", "truncated"}
    /\ rp_received = Wrap(rp_wrap, Unescape(rp_original))
    /\ rp_raw = rp_received
    /\ rp_raised = NoError
    /\ rp_i = 0
    /\ rp_in_string = FALSE
    /\ rp_result = <<>>
    /\ rp_parsed = NotParsed
    /\ rp_pc = "call"

\* Lines 294-298, and lines 250-253 of _escape_json_strings.
RepairEnter ==
    /\ rp_pc = "call"
    /\ rp_raw' = StripFences(rp_raw)
    /\ rp_i' = ScanStart.i
    /\ rp_in_string' = ScanStart.in_string
    /\ rp_result' = ScanStart.result
    /\ rp_pc' = "scan"
    /\ UNCHANGED <<rp_original, rp_wrap, rp_received, rp_parsed, rp_raised>>
    /\ UNCHANGED <<vChunk, vMerge, vMono, vSelect, vFrames, vResults, vSrt, vPair, vScan, vPipe,
                   vStream>>

\* One iteration of the while loop, lines 255-287.
RepairScan ==
    /\ rp_pc = "scan"
    /\ rp_i <= Len(rp_raw)
    /\ LET st == ScanBody([i |-> rp_i, in_string |-> rp_in_string, result |-> rp_result],
                          rp_raw)
       IN /\ rp_i' = st.i
          /\ rp_in_string' = st.in_string
          /\ rp_result' = st.result
    /\ UNCHANGED <<rp_original, rp_wrap, rp_received, rp_raw, rp_parsed, rp_raised, rp_pc>>
    /\ UNCHANGED <<vChunk, vMerge, vMono, vSelect, vFrames, vResults, vSrt, vPair, vScan, vPipe,
                   vStream>>

\* Lines 289 and 299: the loop is over and json.loads is applied to the result;
\* the JSONDecodeError it raises, which holds the text it was given as its
\* `doc`, leaves the function uncaught.
RepairLoads ==
    /\ rp_pc = "scan"
    /\ rp_i > Len(rp_raw)
    /\ rp_parsed' = JsonLoads(rp_result)
    /\ rp_pc' = IF rp_parsed'.ok THEN "done" ELSE "raised"
    /\ rp_raised' = IF rp_parsed'.ok THEN NoError
                    ELSE [type |-> rp_parsed'.error, doc |-> rp_result]
    /\ UNCHANGED <<rp_original, rp_wrap, rp_received, rp_raw, rp_i, rp_in_string, rp_result>>
    /\ UNCHANGED <<vChunk, vMerge, vMono, vSelect, vFrames, vResults, vSrt, vPair, vScan, vPipe,
                   vStream>>

NextRepair == RepairEnter \/ RepairScan \/ RepairLoads

SpecRepair == InitRepair /\ [][NextRepair]_vars

\* The call on the unwrapped text is over.
RepairOver == rp_pc \in {"done", "raised"} /\ rp_wrap = "bare"

\* The literal text of a string keeps every double quote from looking like a
\* closing one: none is followed, directly or after whitespace, by one of the
\* characters , } ] : .
QuotesInside(str) ==
    \A p \in 1..Len(str) :
        str[p] = QUOTE =>
            LET j == SkipWhitespace(str, p + 1) IN
            j > Len(str) \/ str[j] \notin Structural

\* C10 as stated: for every valid JSON text, unescaping the newlines, tabs,
\* carriage returns and double quotes of its strings and passing the result to
\* _parse_json_response yields the mapping that the valid text parses to.
C10_RoundTrip == RepairOver => rp_parsed = JsonLoads(rp_original)

\* C10, amended: the round trip holds for the valid texts in whose string
\* values no double quote is followed, directly or after whitespace, by one of
\* the characters , } ] : .
C10_RoundTripQuotesInside ==
    (RepairOver /\ \A key \in DOMAIN JsonLoads(rp_original).value :
                       QuotesInside(JsonLoads(rp_original).value[key]))
        => rp_parsed = JsonLoads(rp_original)

\* A value with a literal double quote and a literal newline was repaired and
\* parsed to the mapping of the valid text.
C10_Witness ==
    /\ RepairOver
    /\ rp_pc = "done"
    /\ rp_parsed = JsonLoads(rp_original)
    /\ \E p, q \in 1..Len(rp_parsed.value[<<"k">>]) :
           /\ rp_parsed.value[<<"k">>][p] = QUOTE
           /\ rp_parsed.value[<<"k">>][q] = LF

\* The scan is at a double quote inside a string and takes a step.
AtQuoteInString ==
    /\ rp_pc = "scan"
    /\ rp_i <= Len(rp_raw)
    /\ rp_in_string
    /\ rp_raw[rp_i] = QUOTE
    /\ rp_i' = rp_i + 1

\* The next character after position i that is no whitespace is one of
\* , } ] : or there is none.
ClosesAt(raw, i) ==
    LET j == SkipWhitespace(raw, i + 1) IN j > Len(raw) \/ raw[j] \in Structural

C11_StepRule ==
    AtQuoteInString =>
        IF ClosesAt(rp_raw, rp_i)
        THEN rp_in_string' = FALSE /\ rp_result' = rp_result \o <<QUOTE>>
        ELSE rp_in_string' = TRUE /\ rp_result' = rp_result \o <<BACKSLASH, QUOTE>>

\* Every double quote of the string is directly followed by a letter.
QuotesBeforeText(str) ==
    \A p \in 1..Len(str) : str[p] = QUOTE => (p < Len(str) /\ str[p + 1] = "a")

C11_Scenario ==
    (/\ rp_pc = "scan"
     /\ rp_i > Len(rp_raw)
     /\ rp_wrap = "bare"
     /\ QuotesBeforeText(JsonLoads(rp_original).value[<<"k">>]))
        => rp_result = rp_original

\* C11: inside a string, a double quote that the scan reaches ends the string
\* iff the next non-whitespace character is one of , } ] : or the input ends;
\* any other is emitted as backslash-quote and the scan stays inside the
\* string. So a text whose embedded quotes are each followed by ordinary text
\* is repaired to the same text with exactly those quotes escaped.
C11_QuoteRule == [][C11_StepRule]_vars /\ []C11_Scenario

\* A response whose value holds a quote between two letters was scanned to the
\* end, with that quote escaped and the closing one kept.
C11_Witness ==
    /\ rp_pc = "scan"
    /\ rp_i > Len(rp_raw)
    /\ rp_wrap = "bare"
    /\ rp_result = rp_original
    /\ \E p \in 2..(Len(rp_raw) - 1) :
           rp_raw[p] = QUOTE /\ rp_raw[p + 1] = "a" /\ rp_raw[p - 1] = "a"

\* C12: when the text is still not valid JSON after fence stripping and the
\* one repair scan, the error that _parse_json_response fails with carries the
\* raw text as received, and no further repair is attempted.
C12_ErrorCarriesRaw ==
    rp_pc = "raised" =>
        /\ rp_raised.type # ""
        /\ rp_raised.doc = rp_received
        /\ rp_i = Len(rp_raw) + 1

-----------------------------------------------------------------------------
(* analyzer._merge_chunk_results                                           *)

MaxResults == 3

\* The values a per-chunk result may hold under each key.
OverviewValues == {"A", "B"}
ChapterLists == {<<"ch1">>, <<"ch2", "ch3">>}
KeyPointLists == {<<"Py">>, <<"py ">>}

\* A per-chunk result: a dict with any of the keys overview, chapters and
\* key_points.
ResultDict(keys, overview, chapters, key_points) ==
    [k \in keys |-> CASE k = "overview" -> overview
                      [] k = "chapters" -> chapters
                      [] OTHER -> key_points]

ResultDicts ==
    {ResultDict(keys, o, c, p) :
        keys \in SUBSET {"overview", "chapters", "key_points"},
        o \in OverviewValues, c \in ChapterLists, p \in KeyPointLists}

\* d.get(key, default)
DictGet(d, key, default) == IF key \in DOMAIN d THEN d[key] ELSE default

\* A bug: the single result is rebuilt like any other list of results.
IsSingleNever(results) == FALSE

\* `if len(results) == 1`, line 340.
IsSingle(results) == Len(results) = 1

\* A bug: the chapters of a chunk are put before those of the earlier chunks.
MergeResultsBodyPrepend(st, r) ==
    [overviews |-> Append(st.overviews, DictGet(r, "overview", "")),
     all_chapters |-> DictGet(r, "chapters", <<>>) \o st.all_chapters]

\* The body of the for loop, lines 346-348.
MergeResultsBody(st, r) ==
    [overviews |-> Append(st.overviews, DictGet(r, "overview", "")),
     all_chapters |-> st.all_chapters \o DictGet(r, "chapters", <<>>)]

\* The dict built at lines 350-353.
MergedDict(st) == [overview |-> Join(st.overviews), chapters |-> st.all_chapters]

\* The call, with the results drawn from the bounded sets.
InitResults ==
    /\ ChunkIdle
    /\ MergeIdle
    /\ MonoIdle
    /\ SelectIdle
    /\ FramesIdle
    /\ RepairIdle
    /\ SrtIdle
    /\ PairIdle
    /\ ScanIdle
    /\ PipeIdle
    /\ StreamIdle
    /\ mr_results \in SeqsUpTo(ResultDicts, MaxResults)
    /\ mr_i = 0
    /\ mr_overviews = <<>>
    /\ mr_all_chapters = <<>>
    /\ mr_out = EmptyDict
    /\ mr_pc = "call"

\* Lines 340-344: a single result is returned as it is; otherwise the lists
\* are set up and the loop begins.
ResultsEnter ==
    /\ mr_pc = "call"
    /\ IF IsSingle(mr_results)
       THEN /\ mr_out' = mr_results[1]
            /\ mr_pc' = "done"
            /\ UNCHANGED mr_i
       ELSE /\ mr_i' = 1
            /\ mr_pc' = "loop"
            /\ UNCHANGED mr_out
    /\ UNCHANGED <<mr_results, mr_overviews, mr_all_chapters>>
    /\ UNCHANGED <<vChunk, vMerge, vMono, vSelect, vFrames, vRepair, vSrt, vPair, vScan, vPipe,
                   vStream>>

\* Lines 346-348: one iteration of the for loop.
ResultsStep ==
    /\ mr_pc = "loop"
    /\ mr_i <= Len(mr_results)
    /\ LET st == MergeResultsBody([overviews |-> mr_overviews,
                                   all_chapters |-> mr_all_chapters],
                                  mr_results[mr_i])
       IN /\ mr_overviews' = st.overviews
          /\ mr_all_chapters' = st.all_chapters
    /\ mr_i' = mr_i + 1
    /\ UNCHANGED <<mr_results, mr_out, mr_pc>>
    /\ UNCHANGED <<vChunk, vMerge, vMono, vSelect, vFrames, vRepair, vSrt, vPair, vScan, vPipe,
                   vStream>>

\* Lines 350-353: the loop is over and the merged dict is returned.
ResultsReturn ==
    /\ mr_pc = "loop"
    /\ mr_i > Len(mr_results)
    /\ mr_out' = MergedDict([overviews |-> mr_overviews, all_chapters |-> mr_all_chapters])
    /\ mr_pc' = "done"
    /\ UNCHANGED <<mr_results, mr_i, mr_overviews, mr_all_chapters>>
    /\ UNCHANGED <<vChunk, vMerge, vMono, vSelect, vFrames, vRepair, vSrt, vPair, vScan, vPipe,
                   vStream>>

NextResults == ResultsEnter \/ ResultsStep \/ ResultsReturn

SpecResults == InitResults /\ [][NextResults]_vars

\* C13: a list of exactly one result is returned unchanged, every field kept.
C13_SingleIdentity ==
    (mr_pc = "done" /\ Len(mr_results) = 1) => mr_out = mr_results[1]

\* A single result that holds key_points was returned.
C13_Witness ==
    /\ mr_pc = "done"
    /\ Len(mr_results) = 1
    /\ "key_points" \in DOMAIN mr_out
    /\ mr_out = mr_results[1]

\* The overviews and the chapters that the results contribute, in chunk order.
OverviewsOf(results) == [k \in 1..Len(results) |-> DictGet(results[k], "overview", "")]
ChaptersOf(results) == Flatten([k \in 1..Len(results) |-> DictGet(results[k], "chapters", <<>>)])

\* C14: for two or more results the call returns, without failing, a dict
\* whose chapters are the results' chapters concatenated in chunk order and
\* whose overview is the results' overviews joined by single spaces, a missing
\* overview counting as the empty string and missing chapters as no chapters.
C14_ConcatAndJoin ==
    /\ (mr_pc = "done" /\ Len(mr_results) >= 2) =>
           /\ mr_out.chapters = ChaptersOf(mr_results)
           /\ mr_out.overview = Join(OverviewsOf(mr_results))
    /\ (mr_pc = "loop" /\ mr_i > 1) =>
           /\ mr_all_chapters = ChaptersOf(SubSeq(mr_results, 1, mr_i - 1))
           /\ mr_overviews = OverviewsOf(SubSeq(mr_results, 1, mr_i - 1))

\* Three results were merged: the middle one lacks overview and chapters, the
\* outer ones hold different chapters.
C14_Witness ==
    /\ mr_pc = "done"
    /\ Len(mr_results) = 3
    /\ DOMAIN mr_results[2] = {"key_points"}
    /\ mr_out = [overview |-> "A  B", chapters |-> <<"ch2", "ch3", "ch1">>]

\* The key that identifies a key point: trimmed and lower-cased.
NormalizedKey(point) ==
    CASE point = "Py" -> "py"
      [] point = "py " -> "py"
      [] OTHER -> point

RECURSIVE KeepFirst(_, _)
\* The entries of a list whose normalized key is not in seen and did not occur
\* earlier in the list, in order.
KeepFirst(points, seen) ==
    IF points = <<>> THEN <<>>
    ELSE IF NormalizedKey(Head(points)) \in seen THEN KeepFirst(Tail(points), seen)
    ELSE <<Head(points)>> \o KeepFirst(Tail(points), seen \cup {NormalizedKey(Head(points))})

\* The key points that the results contribute, in chunk order.
KeyPointsOf(results) == Flatten([k \in 1..Len(results) |-> DictGet(results[k], "key_points", <<>>)])

\* C15: for two or more results the returned dict holds the key_points of the
\* inputs, in chunk order, with duplicates by trimmed, lower-cased key removed
\* and the first occurrence kept.
C15_KeyPointsDeduped ==
    (/\ mr_pc = "done"
     /\ Len(mr_results) >= 2
     /\ \E k \in 1..Len(mr_results) : "key_points" \in DOMAIN mr_results[k])
        => /\ "key_points" \in DOMAIN mr_out
           /\ mr_out["key_points"] = KeepFirst(KeyPointsOf(mr_results), {})

-----------------------------------------------------------------------------
(* transcriber.parse_srt                                                   *)
(* A file is a text whose characters are one-character strings, except     *)
(* that a timing, a match of _TIME_RE, is a single character-like token.   *)

MaxSrtLines == 5

\* The timings of the model: one running forward, one whose end precedes its
\* start.
TimingForward == "00:00:01,000 --> 00:00:02,500"
TimingBackward == "00:00:05,000 --> 00:00:04,000"
Timings == {TimingForward, TimingBackward}

\* m.groups() of a timing, as numbers: h, m, s, ms of the start and of the end.
TimeGroups(timing) ==
    IF timing = TimingForward THEN <<0, 0, 1, 0, 0, 0, 2, 500>>
    ELSE <<0, 0, 5, 0, 0, 0, 4, 0>>

\* _to_seconds(h, m, s, ms), lines 43-44; the value is kept in milliseconds.
to_seconds(h, m, s, ms) == (h * 3600 + m * 60 + s) * 1000 + ms

\* The lines a caption file is made of: an empty line, a line of one space, a
\* timing line, a timing line running backward, a text line and a line that
\* holds only a tag.
SrtLines ==
    {<<>>, <<SPACE>>, <<TimingForward>>, <<TimingBackward>>, <<"w">>, <<"<", "b", ">">>}

\* path.read_text(): the lines of the file, each ended by a newline.
FileText(lines) == Flatten([k \in 1..Len(lines) |-> lines[k] \o <<LF>>])

RECURSIVE SplitBlocks(_)
\* re.split of a text at every run of two or more newlines (line 57).
SplitBlocks(s) ==
    LET runs == {i \in 1..(Len(s) - 1) : s[i] = LF /\ s[i + 1] = LF} IN
    IF runs = {} THEN <<s>>
    ELSE LET b == CHOOSE i \in runs : \A m \in runs : i <= m
             e == CHOOSE j \in b..Len(s) :
                      /\ \A m \in b..j : s[m] = LF
                      /\ j = Len(s) \/ s[j + 1] # LF
         IN <<SubSeq(s, 1, b - 1)>> \o SplitBlocks(SubSeq(s, e + 1, Len(s)))

\* Line 61: the lines of a block, each stripped, the empty ones dropped.
BlockLines(block) ==
    LET all == SplitLines(Strip(block))
        stripped == [k \in 1..Len(all) |-> Strip(all[k])]
    IN SelectSeq(stripped, LAMBDA ln : ln # <<>>)

\* _TIME_RE.search(line): the first timing in the line, or "" for no match.
TimeSearch(line) ==
    LET at == {k \in 1..Len(line) : line[k] \in Timings} IN
    IF at = {} THEN "" ELSE line[CHOOSE k \in at : \A m \in at : k <= m]

RECURSIVE JoinSpace(_)
\* The join of the lines with one space between them (line 80).
JoinSpace(lines) ==
    IF lines = <<>> THEN <<>>
    ELSE IF Len(lines) = 1 THEN lines[1]
    ELSE lines[1] \o <<SPACE>> \o JoinSpace(Tail(lines))

\* What is left of a timing when a match of _TAG_RE ends at the ">" of its
\* arrow: a space and the end time.
TimingTail(timing) ==
    IF timing = TimingForward THEN <<SPACE, "00:00:02,500">> ELSE <<SPACE, "00:00:04,000">>

RECURSIVE TagSub(_)
\* _TAG_RE.sub of the empty string: every leftmost match of a "<", one or
\* more characters other than ">", and a ">" is removed (line 81). The first
\* ">" after a "<" may be the one inside a timing.
TagSub(text) ==
    IF text = <<>> THEN <<>>
    ELSE LET closes == {j \in 2..Len(text) :
                           \/ j >= 3 /\ text[j] = ">"
                           \/ text[j] \in Timings}
             c == CHOOSE j \in closes : \A m \in closes : j <= m
         IN IF text[1] = "<" /\ Len(text) >= 2 /\ text[2] # ">" /\ closes # {}
            THEN TagSub((IF text[c] \in Timings THEN TimingTail(text[c]) ELSE <<>>)
                            \o SubSeq(text, c + 1, Len(text)))
            ELSE <<text[1]>> \o TagSub(Tail(text))

\* Lines 66-73: the 1-based position of the first line with a timing, or 0.
TimingLine(lines) ==
    LET at == {k \in 1..Len(lines) : TimeSearch(lines[k]) # ""} IN
    IF at = {} THEN 0 ELSE CHOOSE k \in at : \A m \in at : k <= m

\* A bug: the text of a block is taken from every line but the first.
BlockSegmentsFromSecond(block) ==
    LET lines == BlockLines(block)
        t == TimingLine(lines)
        groups == TimeGroups(TimeSearch(lines[t]))
        text == Strip(TagSub(JoinSpace(SubSeq(lines, 2, Len(lines)))))
    IN IF Len(lines) < 2 THEN <<>>
       ELSE IF t = 0 \/ t >= Len(lines) THEN <<>>
       ELSE IF text = <<>> THEN <<>>
       ELSE <<[start |-> to_seconds(groups[1], groups[2], groups[3], groups[4]),
               end |-> to_seconds(groups[5], groups[6], groups[7], groups[8]),
               text |-> text]>>

\* The body of the for loop, lines 61-84: the segments that a block adds, one
\* or none.
BlockSegments(block) ==
    LET lines == BlockLines(block)
        t == TimingLine(lines)
        groups == TimeGroups(TimeSearch(lines[t]))
        text == Strip(TagSub(JoinSpace(SubSeq(lines, t + 1, Len(lines)))))
    IN IF Len(lines) < 2 THEN <<>>
       ELSE IF t = 0 \/ t >= Len(lines) THEN <<>>
       ELSE IF text = <<>> THEN <<>>
       ELSE <<[start |-> to_seconds(groups[1], groups[2], groups[3], groups[4]),
               end |-> to_seconds(groups[5], groups[6], groups[7], groups[8]),
               text |-> text]>>

\* parse_srt as a function of the file's text.
parse_srt(raw) ==
    LET blocks == SplitBlocks(Strip(raw)) IN
    Flatten([k \in 1..Len(blocks) |-> BlockSegments(blocks[k])])

\* The call, with the file drawn from the bounded set.
InitSrt ==
    /\ ChunkIdle
    /\ MergeIdle
    /\ MonoIdle
    /\ SelectIdle
    /\ FramesIdle
    /\ RepairIdle
    /\ ResultsIdle
    /\ PairIdle
    /\ ScanIdle
    /\ PipeIdle
    /\ StreamIdle
    /\ ps_lines \in SeqsUpTo(SrtLines, MaxSrtLines)
    /\ ps_blocks = <<>>
    /\ ps_i = 0
    /\ ps_segments = <<>>
    /\ ps_pc = "call"

\* Lines 56-59: the file is read, stripped and split into blocks.
SrtRead ==
    /\ ps_pc = "call"
    /\ ps_blocks' = SplitBlocks(Strip(FileText(ps_lines)))
    /\ ps_i' = 1
    /\ ps_pc' = "loop"
    /\ UNCHANGED <<ps_lines, ps_segments>>
    /\ UNCHANGED <<vChunk, vMerge, vMono, vSelect, vFrames, vRepair, vResults, vPair, vScan,
                   vPipe,
                   vStream>>

\* Lines 60-84: one iteration of the for loop.
SrtBlock ==
    /\ ps_pc = "loop"
    /\ ps_i <= Len(ps_blocks)
    /\ ps_segments' = ps_segments \o BlockSegments(ps_blocks[ps_i])
    /\ ps_i' = ps_i + 1
    /\ UNCHANGED <<ps_lines, ps_blocks, ps_pc>>
    /\ UNCHANGED <<vChunk, vMerge, vMono, vSelect, vFrames, vRepair, vResults, vPair, vScan,
                   vPipe,
                   vStream>>

\* Line 86: the loop is over and the segments are returned.
SrtReturn ==
    /\ ps_pc = "loop"
    /\ ps_i > Len(ps_blocks)
    /\ ps_pc' = "done"
    /\ UNCHANGED <<ps_lines, ps_blocks, ps_i, ps_segments>>
    /\ UNCHANGED <<vChunk, vMerge, vMono, vSelect, vFrames, vRepair, vResults, vPair, vScan,
                   vPipe,
                   vStream>>

NextSrt == SrtRead \/ SrtBlock \/ SrtReturn

SpecSrt == InitSrt /\ [][NextSrt]_vars

RECURSIVE LineBlocks(_)
\* The blocks of a file: the maximal runs of lines between empty lines.
LineBlocks(lines) ==
    LET empty == {k \in 1..Len(lines) : lines[k] = <<>>} IN
    IF lines = <<>> THEN <<>>
    ELSE IF empty = {} THEN <<lines>>
    ELSE LET e == CHOOSE k \in empty : \A m \in empty : k <= m
             rest == LineBlocks(SubSeq(lines, e + 1, Len(lines)))
         IN IF e = 1 THEN rest ELSE <<SubSeq(lines, 1, e - 1)>> \o rest

\* The text of a block: its lines after the first timing line, joined by
\* single spaces, with the tags removed, trimmed.
BlockText(block) ==
    LET t == TimingLine(block) IN
    Strip(TagSub(JoinSpace([k \in 1..(Len(block) - t) |-> Strip(block[t + k])])))

\* The block has a timing line and its text is not empty.
BlockKept(block) == TimingLine(block) # 0 /\ BlockText(block) # <<>>

\* The times of a kept block: those of its first timing line.
BlockTimes(block) ==
    LET groups == TimeGroups(TimeSearch(block[TimingLine(block)])) IN
    [start |-> to_seconds(groups[1], groups[2], groups[3], groups[4]),
     end |-> to_seconds(groups[5], groups[6], groups[7], groups[8])]

\* C16: parse_srt returns, in file order, one Segment for each block of the
\* file (a run of lines between empty lines) that has a line with a timing
\* and whose lines after the first such line, joined by single spaces and
\* with the tags removed, are not empty; every other block is skipped. So the
\* result is empty iff no block is of that kind.
C16_OnePerBlock ==
    ps_pc = "done" =>
        LET blocks == LineBlocks(ps_lines)
            kept == SelectSeq(blocks, BlockKept)
        IN /\ Len(ps_segments) = Len(kept)
           /\ \A k \in 1..Len(kept) :
                  /\ ps_segments[k].start = BlockTimes(kept[k]).start
                  /\ ps_segments[k].end = BlockTimes(kept[k]).end
           /\ ps_segments = <<>> <=> \A k \in 1..Len(blocks) : ~BlockKept(blocks[k])

\* A file of two blocks was parsed: the first, whose timing line follows a
\* text line, gave a segment, and the second was skipped.
C16_Witness ==
    /\ ps_pc = "done"
    /\ Len(LineBlocks(ps_lines)) = 2
    /\ BlockKept(LineBlocks(ps_lines)[1])
    /\ TimingLine(LineBlocks(ps_lines)[1]) = 2
    /\ Len(ps_segments) = 1

\* C17: every Segment that parse_srt returns has end >= start and a text that
\* is not empty, also when the end time of the timing line precedes its start
\* time.
C17_SegmentInvariant ==
    \A k \in 1..Len(ps_segments) :
        ps_segments[k].end >= ps_segments[k].start /\ ps_segments[k].text # <<>>

-----------------------------------------------------------------------------
(* transcriber.merge_segments: a window of zero or less, and the Segment   *)
(* invariant of the chunks.                                                 *)

\* The start times are non-decreasing along the list.
StartsSorted(segments) ==
    \A j, k \in 1..Len(segments) : j < k => segments[j].start <= segments[k].start

\* Every segment after the first has a positive duration.
PositiveAfterFirst(segments) ==
    \A k \in 2..Len(segments) : duration(segments[k]) > 0

\* C25 as stated: with window_seconds <= 0 the chunks returned are the input
\* segments, one chunk per segment.
C25_OnePerSegment ==
    (ms_pc = "done" /\ ms_window <= 0) => ms_merged = ms_segments

\* C25, amended: with window_seconds <= 0 the chunks returned are the input
\* segments, one chunk per segment, when the start times are non-decreasing
\* and, for window_seconds = 0, every segment after the first has a positive
\* duration.
C25_OnePerSegmentOrdered ==
    (/\ ms_pc = "done"
     /\ ms_window <= 0
     /\ StartsSorted(ms_segments)
     /\ ms_window < 0 \/ PositiveAfterFirst(ms_segments))
        => ms_merged = ms_segments

\* The call returned with window 0 for three chronological segments of
\* positive duration, the second overlapping the first.
C25_Witness ==
    /\ ms_pc = "done"
    /\ ms_window = 0
    /\ Len(ms_segments) = 3
    /\ StartsSorted(ms_segments)
    /\ \A k \in 1..3 : duration(ms_segments[k]) > 0
    /\ ms_segments[2].start < ms_segments[1].end
    /\ ms_merged = ms_segments

\* Every chunk emitted, and the open chunk, has end >= start.
ChunksWellFormed ==
    /\ \A k \in 1..Len(ms_merged) : ms_merged[k].end >= ms_merged[k].start
    /\ ms_pc = "loop" => ms_chunk_end >= ms_chunk_start

\* C27 as stated: whatever the order of the input segments (each with
\* end >= start), every chunk returned has end >= start.
C27_ChunkInvariant == ChunksWellFormed

\* C27, amended: when the start times of the input segments (each with
\* end >= start) are non-decreasing, every chunk returned has end >= start.
C27_ChunkInvariantSorted == StartsSorted(ms_segments) => ChunksWellFormed

\* The call returned two or more chunks for chronological input, one of them
\* absorbing several segments.
C27_Witness ==
    /\ ms_pc = "done"
    /\ StartsSorted(ms_segments)
    /\ Len(ms_merged) >= 2
    /\ Len(ms_merged) < Len(ms_segments)
    /\ \A k \in 1..Len(ms_merged) : ms_merged[k].end >= ms_merged[k].start

-----------------------------------------------------------------------------
(* analyzer._frames_for_chunk and its use in analyzer.analyze.              *)

MaxPairFrames == 4
MaxPerChunk == 2

\* The timestamps of the frames, doubled: 0.5 to 2.5 seconds in half seconds.
FrameTimes2 == {1, 2, 3, 4, 5}

\* The frame lists: the k-th frame of a list belongs to segment k - 1.
FrameLists ==
    {[k \in 1..Len(ts) |->
        [path |-> <<k - 1, ts[k] \div 2>>, timestamp2 |-> ts[k], segment_index |-> k - 1]]
     : ts \in SeqsUpTo(FrameTimes2, MaxPairFrames)}

\* The chunks: none, and chunks of one and two segments between 1 and 2 seconds.
PairChunks ==
    {<<>>, SegmentsOf(<<<<1, 2>>>>), SegmentsOf(<<<<1, 1>>>>),
     SegmentsOf(<<<<1, 1>>, <<2, 2>>>>), SegmentsOf(<<<<2, 2>>, <<1, 1>>>>)}

RECURSIVE FramesBetween(_, _, _)
\* [f for f in frames if start <= f.timestamp <= end], line 232.
FramesBetween(frames, start, end) ==
    IF frames = <<>> THEN <<>>
    ELSE LET f == Head(frames)
             rest == FramesBetween(Tail(frames), start, end)
         IN IF 2 * start <= f.timestamp2 /\ f.timestamp2 <= 2 * end
            THEN <<f>> \o rest
            ELSE rest

\* A bug: the end of the chunk is taken from its first segment.
FramesForChunkFirstEnd(frames, segments) ==
    IF segments = <<>> \/ frames = <<>> THEN <<>>
    ELSE FramesBetween(frames, segments[1].start, segments[1].end)

\* _frames_for_chunk(frames, segments), lines 226-232.
frames_for_chunk(frames, segments) ==
    IF segments = <<>> \/ frames = <<>> THEN <<>>
    ELSE FramesBetween(frames, segments[1].start, segments[Len(segments)].end)

\* s[:n] of Python: the first n items, or all but the last -n when n < 0.
SliceTo(s, n) ==
    IF n >= 0 THEN SubSeq(s, 1, Min(n, Len(s)))
    ELSE SubSeq(s, 1, IF Len(s) + n < 0 THEN 0 ELSE Len(s) + n)

\* One iteration of the loop of analyze for one chunk, with the arguments
\* drawn from the bounded sets.
InitPair ==
    /\ ChunkIdle
    /\ MergeIdle
    /\ MonoIdle
    /\ SelectIdle
    /\ FramesIdle
    /\ RepairIdle
    /\ ResultsIdle
    /\ SrtIdle
    /\ ScanIdle
    /\ PipeIdle
    /\ StreamIdle
    /\ fc_frames \in FrameLists
    /\ fc_segments \in PairChunks
    /\ fc_max \in 0..MaxPerChunk
    /\ fc_chunk_frames = <<>>
    /\ fc_pc = "call"

\* Line 484: chunk_frames = _frames_for_chunk(frames, chunk_segments)[:max_frames_per_chunk]
PairCall ==
    /\ fc_pc = "call"
    /\ fc_chunk_frames' = SliceTo(frames_for_chunk(fc_frames, fc_segments), fc_max)
    /\ fc_pc' = "done"
    /\ UNCHANGED <<fc_frames, fc_segments, fc_max>>
    /\ UNCHANGED <<vChunk, vMerge, vMono, vSelect, vFrames, vRepair, vResults, vSrt, vScan, vPipe,
                   vStream>>

NextPair == PairCall

SpecPair == InitPair /\ [][NextPair]_vars

\* The timestamp of a frame lies in the closed interval of the chunk.
InChunk(f) ==
    /\ fc_segments # <<>>
    /\ 2 * fc_segments[1].start <= f.timestamp2
    /\ f.timestamp2 <= 2 * fc_segments[Len(fc_segments)].end

\* The frames of the frame list that lie in the chunk, in list order.
Matching == SelectSeq(fc_frames, InChunk)

\* C24: the frames sent with a chunk are the first max_frames_per_chunk
\* frames, in frame-list order, whose timestamp lies in the closed interval
\* from the start of the chunk's first segment to the end of its last; none
\* lies outside it, and an empty chunk or frame list gives no frames.
C24_FramesSent ==
    fc_pc = "done" =>
        /\ fc_chunk_frames = SubSeq(Matching, 1, Min(fc_max, Len(Matching)))
        /\ \A k \in 1..Len(fc_chunk_frames) : InChunk(fc_chunk_frames[k])
        /\ (fc_segments = <<>> \/ fc_frames = <<>>) => fc_chunk_frames = <<>>

\* max_frames_per_chunk frames were sent of more that lie in the chunk, the
\* first at the chunk's start and one at its end, after a frame outside it.
C24_Witness ==
    /\ fc_pc = "done"
    /\ fc_max >= 2
    /\ Len(fc_chunk_frames) = fc_max
    /\ Len(Matching) > fc_max
    /\ Len(fc_segments) = 2
    /\ ~InChunk(fc_frames[1])
    /\ fc_chunk_frames[1].timestamp2 = 2 * fc_segments[1].start
    /\ fc_chunk_frames[2].timestamp2 = 2 * fc_segments[2].end

-----------------------------------------------------------------------------
(* analyzer._escape_json_strings applied once and twice.                    *)

MaxScanLen == 4

\* The characters of the arbitrary texts: a letter, the quote, the backslash,
\* a newline, a structural character and a space.
ScanChars == {"a", QUOTE, BACKSLASH, LF, ",", SPACE}

\* A valid JSON text with whitespace around its tokens.
SpacedText(value) ==
    <<"{", LF>> \o JsonString(<<"k">>) \o <<SPACE, ":", TAB>> \o JsonString(value)
        \o <<CR, LF, "}">>

\* The texts scanned: valid JSON texts, the same with their escapes replaced
\* by the literal characters, and arbitrary texts.
ScanTexts ==
    LET valid == {OriginalText(value, members) :
                      value \in SeqsUpTo(ValueChars, MaxValueLen), members \in 1..2}
                    \cup {SpacedText(value) : value \in SeqsUpTo(ValueChars, MaxValueLen)}
    IN valid \cup {Unescape(text) : text \in valid} \cup SeqsUpTo(ScanChars, MaxScanLen)

InitScan ==
    /\ ChunkIdle
    /\ MergeIdle
    /\ MonoIdle
    /\ SelectIdle
    /\ FramesIdle
    /\ RepairIdle
    /\ ResultsIdle
    /\ SrtIdle
    /\ PairIdle
    /\ PipeIdle
    /\ StreamIdle
    /\ sn_raw \in ScanTexts
    /\ sn_once = <<>>
    /\ sn_twice = <<>>
    /\ sn_pc = "call"

\* _escape_json_strings(raw)
ScanOnce ==
    /\ sn_pc = "call"
    /\ sn_once' = escape_json_strings(sn_raw)
    /\ sn_pc' = "once"
    /\ UNCHANGED <<sn_raw, sn_twice>>
    /\ UNCHANGED <<vChunk, vMerge, vMono, vSelect, vFrames, vRepair, vResults, vSrt, vPair, vPipe,
                   vStream>>

\* _escape_json_strings applied to the text it returned.
ScanTwice ==
    /\ sn_pc = "once"
    /\ sn_twice' = escape_json_strings(sn_once)
    /\ sn_pc' = "done"
    /\ UNCHANGED <<sn_raw, sn_once>>
    /\ UNCHANGED <<vChunk, vMerge, vMono, vSelect, vFrames, vRepair, vResults, vSrt, vPair, vPipe,
                   vStream>>

NextScan == ScanOnce \/ ScanTwice

SpecScan == InitScan /\ [][NextScan]_vars

\* C30: _escape_json_strings returns a valid JSON text unchanged, so the
\* text parses to the same mapping after the scan; and applied to its own
\* result, for any text, it returns that result.
C30_IdentityAndIdempotent ==
    sn_pc = "done" =>
        /\ JsonLoads(sn_raw).ok => (sn_once = sn_raw /\ JsonLoads(sn_once) = JsonLoads(sn_raw))
        /\ sn_twice = sn_once

\* A valid text with an escaped quote before a structural character, an
\* escaped newline and whitespace after a closing quote came back unchanged.
C30_Witness ==
    /\ sn_pc = "done"
    /\ JsonLoads(sn_raw).ok
    /\ sn_once = sn_raw
    /\ \E p \in 1..(Len(sn_raw) - 2) :
           sn_raw[p] = BACKSLASH /\ sn_raw[p + 1] = QUOTE /\ sn_raw[p + 2] = "}"
    /\ \E p \in 1..(Len(sn_raw) - 1) : sn_raw[p] = BACKSLASH /\ sn_raw[p + 1] = "n"
    /\ \E p \in 1..(Len(sn_raw) - 1) : sn_raw[p] = QUOTE /\ sn_raw[p + 1] = SPACE

-----------------------------------------------------------------------------
(* analyzer._parse_json_response on a fenced valid text.                    *)

\* The text inside the fence is the valid text itself: it holds no escape
\* that the producer replaced.
FencedValid == rp_wrap = "fenced" /\ Unescape(rp_original) = rp_original

\* C26: a valid JSON text without backticks, wrapped as a fenced block (an
\* opening fence line with a language tag, the text, a closing fence), parses
\* to the mapping that the text alone parses to.
C26_FencedSameAsBare ==
    (rp_pc \in {"done", "raised"} /\ FencedValid) => rp_parsed = JsonLoads(rp_original)

\* ---------------------------------------------------------------------
\* The pipeline: cli.run and server._run_pipeline
\* ---------------------------------------------------------------------
\* Both entry points run the same stages: video info, transcript
\* (subtitles, else speech recognition), merge, key frames, analysis,
\* report.  The transcript, the merged segments and the chunks are held
\* by their lengths: the pipeline tests only whether they are empty and
\* loops once per chunk.  A collaborator (yt-dlp, Whisper, OpenCV, the
\* Anthropic SDK, the file system) returns or raises, whichever the step
\* chooses.  pl_calls logs a call when it is made.  A step of the server
\* ends where the thread waits in a collaborator, so that the events put
\* before the call are on the queue while the call runs.

\* Bound of the pipeline: the longest transcript.
MaxPipeSegs == 2

\* The fields of the dataclass Summary.
SummaryFields == {"title", "overview", "chapters", "frames", "diagram_data"}

\* An item of the job queue: the payload _put serialises, by its type and,
\* for a step event, the stage and the status.
Event(type, step, status) == [type |-> type, step |-> step, status |-> status]

StepEvent(step, status) == Event("step", step, status)

\* q.put(None), the item that tells the stream generator to stop.
Sentinel == Event("None", "", "")

\* _put(q, event_type, **kwargs)
Put(q, event) == Append(q, event)

\* len(merge_segments(segments, window)): empty for an empty list, else at
\* least one segment and at most as many as were given.
MergedLengths(n) == IF n = 0 THEN {0} ELSE 1..n

\* len(_chunk_transcript(segments, _MAX_TRANSCRIPT_CHARS)): likewise.
ChunkLengths(n) == IF n = 0 THEN {0} ELSE 1..n

\* The state in which an exception `exc` leaves the try block.
Raise(exc) ==
    /\ pl_exc' = exc
    /\ pl_pc' = "handler"

InitPipeline ==
    /\ ChunkIdle
    /\ MergeIdle
    /\ MonoIdle
    /\ SelectIdle
    /\ FramesIdle
    /\ RepairIdle
    /\ ResultsIdle
    /\ SrtIdle
    /\ PairIdle
    /\ ScanIdle
    /\ StreamIdle
    /\ pl_entry \in {"cli", "server"}
    /\ pl_no_frames \in BOOLEAN
    /\ pl_has_subs = FALSE
    /\ pl_segments = 0
    /\ pl_merged = 0
    /\ pl_chunks = 0
    /\ pl_calls = <<>>
    /\ pl_queue = <<>>
    /\ pl_exc = ""
    /\ pl_failed = FALSE
    /\ pl_unparseable = FALSE
    /\ pl_outcome = ""
    /\ pl_pc = "start"

\* server._run_pipeline before the try block: the job's queue is looked up
\* and tempfile.mkdtemp makes the work directory; when that raises, the
\* exception ends the thread with nothing put on the queue.
ServerStart ==
    /\ pl_entry = "server"
    /\ pl_pc = "start"
    /\ \/ /\ pl_pc' = "fetch"
          /\ UNCHANGED <<pl_exc, pl_failed, pl_outcome>>
       \/ /\ pl_exc' = "Exception"
          /\ pl_failed' = TRUE
          /\ pl_outcome' = "died"
          /\ pl_pc' = "done"
    /\ UNCHANGED <<pl_entry, pl_no_frames, pl_has_subs, pl_segments, pl_merged, pl_chunks,
                   pl_calls, pl_queue, pl_unparseable>>
    /\ UNCHANGED <<vChunk, vMerge, vMono, vSelect, vFrames, vRepair, vResults, vSrt, vPair,
                   vScan, vStream>>

\* server._run_pipeline, step 1: the 'active' event is put and
\* get_video_info is called.
ServerFetch ==
    /\ pl_entry = "server"
    /\ pl_pc = "fetch"
    /\ pl_queue' = Put(pl_queue, StepEvent("fetch", "active"))
    /\ pl_calls' = Append(pl_calls, "get_video_info")
    /\ pl_pc' = "fetch_call"
    /\ UNCHANGED <<pl_entry, pl_no_frames, pl_has_subs, pl_segments, pl_merged, pl_chunks,
                   pl_exc, pl_failed, pl_unparseable, pl_outcome>>
    /\ UNCHANGED <<vChunk, vMerge, vMono, vSelect, vFrames, vRepair, vResults, vSrt, vPair,
                   vScan, vStream>>

\* server._run_pipeline, step 1: get_video_info raises, or it returns and
\* binds info; then the message of the 'done' event is built, which raises
\* on a record whose duration is None (info.duration_str), or the event is
\* put and the output directory is made, which may raise in its turn.
ServerFetchDone ==
    /\ pl_entry = "server"
    /\ pl_pc = "fetch_call"
    /\ \/ /\ \E subs \in BOOLEAN : pl_has_subs' = subs
          /\ pl_queue' = Put(pl_queue, StepEvent("fetch", "done"))
          /\ \/ /\ pl_pc' = "subtitles"
                /\ UNCHANGED <<pl_exc, pl_failed>>
             \/ /\ Raise("Exception")
                /\ pl_failed' = TRUE
       \/ /\ \E subs \in BOOLEAN : pl_has_subs' = subs
          /\ Raise("Exception")
          /\ pl_failed' = TRUE
          /\ UNCHANGED pl_queue
       \/ /\ Raise("Exception")
          /\ pl_failed' = TRUE
          /\ UNCHANGED <<pl_has_subs, pl_queue>>
    /\ UNCHANGED <<pl_entry, pl_no_frames, pl_segments, pl_merged, pl_chunks, pl_calls,
                   pl_unparseable, pl_outcome>>
    /\ UNCHANGED <<vChunk, vMerge, vMono, vSelect, vFrames, vRepair, vResults, vSrt, vPair,
                   vScan, vStream>>

\* server._run_pipeline, step 2, subtitles: when the video has any, the
\* 'active' event is put and download_subtitles is called.
ServerSubtitles ==
    /\ pl_entry = "server"
    /\ pl_pc = "subtitles"
    /\ IF pl_has_subs
       THEN /\ pl_queue' = Put(pl_queue, StepEvent("transcript", "active"))
            /\ pl_calls' = Append(pl_calls, "download_subtitles")
            /\ pl_pc' = "subtitles_call"
       ELSE /\ pl_pc' = "asr"
            /\ UNCHANGED <<pl_calls, pl_queue>>
    /\ UNCHANGED <<pl_entry, pl_no_frames, pl_has_subs, pl_segments, pl_merged, pl_chunks,
                   pl_exc, pl_failed, pl_unparseable, pl_outcome>>
    /\ UNCHANGED <<vChunk, vMerge, vMono, vSelect, vFrames, vRepair, vResults, vSrt, vPair,
                   vScan, vStream>>

\* server._run_pipeline, step 2, subtitles: download_subtitles returns a
\* file, which parse_srt reads before the 'done' event is put, or nothing,
\* or raises.
ServerSubtitlesDone ==
    /\ pl_entry = "server"
    /\ pl_pc = "subtitles_call"
    /\ \/ /\ \E n \in 0..MaxPipeSegs : pl_segments' = n
          /\ pl_queue' = Put(pl_queue, StepEvent("transcript", "done"))
          /\ pl_pc' = "asr"
          /\ UNCHANGED <<pl_exc, pl_failed>>
       \/ /\ pl_pc' = "asr"
          /\ UNCHANGED <<pl_segments, pl_queue, pl_exc, pl_failed>>
       \/ /\ Raise("Exception")
          /\ pl_failed' = TRUE
          /\ UNCHANGED <<pl_segments, pl_queue>>
    /\ UNCHANGED <<pl_entry, pl_no_frames, pl_has_subs, pl_merged, pl_chunks, pl_calls,
                   pl_unparseable, pl_outcome>>
    /\ UNCHANGED <<vChunk, vMerge, vMono, vSelect, vFrames, vRepair, vResults, vSrt, vPair,
                   vScan, vStream>>

\* server._run_pipeline, step 2, speech recognition: when there are no
\* segments yet, the 'active' event is put and download_audio is called.
ServerAsr ==
    /\ pl_entry = "server"
    /\ pl_pc = "asr"
    /\ IF pl_segments = 0
       THEN /\ pl_queue' = Put(pl_queue, StepEvent("transcript", "active"))
            /\ pl_calls' = Append(pl_calls, "download_audio")
            /\ pl_pc' = "audio_call"
       ELSE /\ pl_pc' = "merge"
            /\ UNCHANGED <<pl_calls, pl_queue>>
    /\ UNCHANGED <<pl_entry, pl_no_frames, pl_has_subs, pl_segments, pl_merged, pl_chunks,
                   pl_exc, pl_failed, pl_unparseable, pl_outcome>>
    /\ UNCHANGED <<vChunk, vMerge, vMono, vSelect, vFrames, vRepair, vResults, vSrt, vPair,
                   vScan, vStream>>

\* server._run_pipeline, step 2: download_audio raises, or returns the
\* file with which transcribe_audio is called.
ServerAsrAudio ==
    /\ pl_entry = "server"
    /\ pl_pc = "audio_call"
    /\ \/ /\ pl_calls' = Append(pl_calls, "transcribe_audio")
          /\ pl_pc' = "asr_call"
          /\ UNCHANGED <<pl_exc, pl_failed>>
       \/ /\ Raise("Exception")
          /\ pl_failed' = TRUE
          /\ UNCHANGED pl_calls
    /\ UNCHANGED <<pl_entry, pl_no_frames, pl_has_subs, pl_segments, pl_merged, pl_chunks,
                   pl_queue, pl_unparseable, pl_outcome>>
    /\ UNCHANGED <<vChunk, vMerge, vMono, vSelect, vFrames, vRepair, vResults, vSrt, vPair,
                   vScan, vStream>>

\* server._run_pipeline, step 2: transcribe_audio raises, or returns the
\* segments and the 'done' event is put.
ServerAsrDone ==
    /\ pl_entry = "server"
    /\ pl_pc = "asr_call"
    /\ \/ /\ \E n \in 0..MaxPipeSegs : pl_segments' = n
          /\ pl_queue' = Put(pl_queue, StepEvent("transcript", "done"))
          /\ pl_pc' = "merge"
          /\ UNCHANGED <<pl_exc, pl_failed>>
       \/ /\ Raise("Exception")
          /\ pl_failed' = TRUE
          /\ UNCHANGED <<pl_segments, pl_queue>>
    /\ UNCHANGED <<pl_entry, pl_no_frames, pl_has_subs, pl_merged, pl_chunks, pl_calls,
                   pl_unparseable, pl_outcome>>
    /\ UNCHANGED <<vChunk, vMerge, vMono, vSelect, vFrames, vRepair, vResults, vSrt, vPair,
                   vScan, vStream>>

\* server._run_pipeline: merged = merge_segments(segments, 60.0), whatever
\* the transcript holds.
ServerMerge ==
    /\ pl_entry = "server"
    /\ pl_pc = "merge"
    /\ \E n \in MergedLengths(pl_segments) : pl_merged' = n
    /\ pl_pc' = "frames"
    /\ UNCHANGED <<pl_entry, pl_no_frames, pl_has_subs, pl_segments, pl_chunks, pl_calls,
                   pl_queue, pl_exc, pl_failed, pl_unparseable, pl_outcome>>
    /\ UNCHANGED <<vChunk, vMerge, vMono, vSelect, vFrames, vRepair, vResults, vSrt, vPair,
                   vScan, vStream>>

\* server._run_pipeline, step 3, key frames: with no_frames the 'skip'
\* event is put; otherwise the 'active' event is put and download_video is
\* called.
ServerFrames ==
    /\ pl_entry = "server"
    /\ pl_pc = "frames"
    /\ IF pl_no_frames
       THEN /\ pl_queue' = Put(pl_queue, StepEvent("frames", "skip"))
            /\ pl_pc' = "analyze"
            /\ UNCHANGED pl_calls
       ELSE /\ pl_queue' = Put(pl_queue, StepEvent("frames", "active"))
            /\ pl_calls' = Append(pl_calls, "download_video")
            /\ pl_pc' = "video_call"
    /\ UNCHANGED <<pl_entry, pl_no_frames, pl_has_subs, pl_segments, pl_merged, pl_chunks,
                   pl_exc, pl_failed, pl_unparseable, pl_outcome>>
    /\ UNCHANGED <<vChunk, vMerge, vMono, vSelect, vFrames, vRepair, vResults, vSrt, vPair,
                   vScan, vStream>>

\* An exception inside the try block of step 3: an OSError is reported by
\* the 'warn' event and the run goes on; any other leaves the outer try
\* block.
FramesRaise ==
    /\ pl_failed' = TRUE
    /\ \/ /\ pl_queue' = Put(pl_queue, StepEvent("frames", "warn"))
          /\ pl_pc' = "analyze"
          /\ UNCHANGED pl_exc
       \/ /\ Raise("Exception")
          /\ UNCHANGED pl_queue

\* server._run_pipeline, step 3: download_video raises, or returns the
\* file with which extract_frames is called.
ServerFramesVideo ==
    /\ pl_entry = "server"
    /\ pl_pc = "video_call"
    /\ \/ /\ pl_calls' = Append(pl_calls, "extract_frames")
          /\ pl_pc' = "extract_call"
          /\ UNCHANGED <<pl_queue, pl_exc, pl_failed>>
       \/ /\ FramesRaise
          /\ UNCHANGED pl_calls
    /\ UNCHANGED <<pl_entry, pl_no_frames, pl_has_subs, pl_segments, pl_merged, pl_chunks,
                   pl_unparseable, pl_outcome>>
    /\ UNCHANGED <<vChunk, vMerge, vMono, vSelect, vFrames, vRepair, vResults, vSrt, vPair,
                   vScan, vStream>>

\* server._run_pipeline, step 3: extract_frames raises, or returns the
\* frames and the 'done' event is put.
ServerFramesDone ==
    /\ pl_entry = "server"
    /\ pl_pc = "extract_call"
    /\ \/ /\ pl_queue' = Put(pl_queue, StepEvent("frames", "done"))
          /\ pl_pc' = "analyze"
          /\ UNCHANGED <<pl_exc, pl_failed>>
       \/ FramesRaise
    /\ UNCHANGED <<pl_entry, pl_no_frames, pl_has_subs, pl_segments, pl_merged, pl_chunks,
                   pl_calls, pl_unparseable, pl_outcome>>
    /\ UNCHANGED <<vChunk, vMerge, vMono, vSelect, vFrames, vRepair, vResults, vSrt, vPair,
                   vScan, vStream>>

\* server._run_pipeline, step 4: the event before analyze is called.
ServerAnalyze ==
    /\ pl_entry = "server"
    /\ pl_pc = "analyze"
    /\ pl_queue' = Put(pl_queue, StepEvent("analyze", "active"))
    /\ pl_pc' = "analyze_enter"
    /\ UNCHANGED <<pl_entry, pl_no_frames, pl_has_subs, pl_segments, pl_merged, pl_chunks,
                   pl_calls, pl_exc, pl_failed, pl_unparseable, pl_outcome>>
    /\ UNCHANGED <<vChunk, vMerge, vMono, vSelect, vFrames, vRepair, vResults, vSrt, vPair,
                   vScan, vStream>>

\* analyzer.analyze, up to the loop: the SDK is imported, or ImportError is
\* raised; the client is constructed, which may raise; and the merged
\* segments are cut into chunks.
AnalyzeEnter ==
    /\ pl_pc = "analyze_enter"
    /\ \/ /\ \E n \in ChunkLengths(pl_merged) : pl_chunks' = n
          /\ pl_pc' = "chunks"
          /\ UNCHANGED <<pl_exc, pl_failed>>
       \/ /\ \E exc \in {"ImportError", "Exception"} : Raise(exc)
          /\ pl_failed' = TRUE
          /\ UNCHANGED pl_chunks
    /\ UNCHANGED <<pl_entry, pl_no_frames, pl_has_subs, pl_segments, pl_merged, pl_calls,
                   pl_queue, pl_unparseable, pl_outcome>>
    /\ UNCHANGED <<vChunk, vMerge, vMono, vSelect, vFrames, vRepair, vResults, vSrt, vPair,
                   vScan, vStream>>

\* analyzer.analyze, one turn of the loop: _call_claude sends the chunk and
\* parses the response; the request fails, or the response does not parse
\* (json.JSONDecodeError), or the result is appended.
AnalyzeChunk ==
    /\ pl_pc = "chunks"
    /\ pl_chunks > 0
    /\ pl_calls' = Append(pl_calls, "analysis")
    /\ \/ /\ pl_chunks' = pl_chunks - 1
          /\ UNCHANGED <<pl_exc, pl_failed, pl_unparseable, pl_pc>>
       \/ /\ Raise("JSONDecodeError")
          /\ pl_unparseable' = TRUE
          /\ UNCHANGED <<pl_chunks, pl_failed>>
       \/ /\ Raise("Exception")
          /\ pl_failed' = TRUE
          /\ UNCHANGED <<pl_chunks, pl_unparseable>>
    /\ UNCHANGED <<pl_entry, pl_no_frames, pl_has_subs, pl_segments, pl_merged, pl_queue,
                   pl_outcome>>
    /\ UNCHANGED <<vChunk, vMerge, vMono, vSelect, vFrames, vRepair, vResults, vSrt, vPair,
                   vScan, vStream>>

\* analyzer.analyze, after the loop: the results are merged and the
\* chapters are built from them, which raises (AttributeError, TypeError,
\* ValueError) on a response that parsed to something of another shape;
\* then get_diagram constructs its own client, outside its try block, so
\* that an exception of the constructor leaves analyze, and makes its own
\* request, whose failure or unparseable response it swallows, and the
\* Summary is returned.
AnalyzeReturn ==
    /\ pl_pc = "chunks"
    /\ pl_chunks = 0
    /\ \/ /\ pl_calls' = Append(pl_calls, "diagram")
          /\ \E ok \in BOOLEAN : pl_failed' = (pl_failed \/ ~ok)
          /\ pl_pc' = "report"
          /\ UNCHANGED pl_exc
       \/ /\ pl_calls' = Append(pl_calls, "diagram")
          /\ Raise("Exception")
          /\ pl_failed' = TRUE
       \/ /\ pl_merged > 0
          /\ Raise("ShapeError")
          /\ UNCHANGED <<pl_calls, pl_failed>>
    /\ UNCHANGED <<pl_entry, pl_no_frames, pl_has_subs, pl_segments, pl_merged, pl_chunks,
                   pl_queue, pl_unparseable, pl_outcome>>
    /\ UNCHANGED <<vChunk, vMerge, vMono, vSelect, vFrames, vRepair, vResults, vSrt, vPair,
                   vScan, vStream>>

\* The events of a report that went through.
ReportEvents ==
    <<StepEvent("analyze", "done"), StepEvent("output", "active"),
      StepEvent("output", "done"), Event("result", "", "")>>

\* server._run_pipeline after analyze returned: the 'done' message reads
\* summary.key_points (AttributeError unless Summary has the field), then
\* the report is saved and the result is emitted; save_markdown, save_json
\* or the copy of the frames into the output directory may raise.
ServerReport ==
    /\ pl_entry = "server"
    /\ pl_pc = "report"
    /\ IF "key_points" \in SummaryFields
       THEN \/ /\ pl_calls' = pl_calls \o <<"save_markdown", "save_json">>
               /\ pl_queue' = pl_queue \o ReportEvents
               /\ pl_pc' = "finally"
               /\ UNCHANGED <<pl_exc, pl_failed>>
            \/ /\ pl_calls' = Append(pl_calls, "save_markdown")
               /\ pl_queue' = pl_queue \o SubSeq(ReportEvents, 1, 2)
               /\ Raise("Exception")
               /\ pl_failed' = TRUE
            \/ /\ pl_calls' = pl_calls \o <<"save_markdown", "save_json">>
               /\ \E put \in 2..3 : pl_queue' = pl_queue \o SubSeq(ReportEvents, 1, put)
               /\ Raise("Exception")
               /\ pl_failed' = TRUE
       ELSE /\ Raise("AttributeError")
            /\ UNCHANGED <<pl_calls, pl_queue, pl_failed>>
    /\ UNCHANGED <<pl_entry, pl_no_frames, pl_has_subs, pl_segments, pl_merged, pl_chunks,
                   pl_unparseable, pl_outcome>>
    /\ UNCHANGED <<vChunk, vMerge, vMono, vSelect, vFrames, vRepair, vResults, vSrt, vPair,
                   vScan, vStream>>

\* server._run_pipeline, except: the exception is emitted as the 'error'
\* event.
ServerExcept ==
    /\ pl_entry = "server"
    /\ pl_pc = "handler"
    /\ pl_queue' = Put(pl_queue, Event("error", "", ""))
    /\ pl_pc' = "finally"
    /\ UNCHANGED <<pl_entry, pl_no_frames, pl_has_subs, pl_segments, pl_merged, pl_chunks,
                   pl_calls, pl_exc, pl_failed, pl_unparseable, pl_outcome>>
    /\ UNCHANGED <<vChunk, vMerge, vMono, vSelect, vFrames, vRepair, vResults, vSrt, vPair,
                   vScan, vStream>>

\* server._run_pipeline, finally: the work directory is removed and the
\* sentinel is put.
ServerFinally ==
    /\ pl_entry = "server"
    /\ pl_pc = "finally"
    /\ pl_queue' = Append(pl_queue, Sentinel)
    /\ pl_outcome' = IF pl_exc # "" THEN "error" ELSE "result"
    /\ pl_pc' = "done"
    /\ UNCHANGED <<pl_entry, pl_no_frames, pl_has_subs, pl_segments, pl_merged, pl_chunks,
                   pl_calls, pl_exc, pl_failed, pl_unparseable>>
    /\ UNCHANGED <<vChunk, vMerge, vMono, vSelect, vFrames, vRepair, vResults, vSrt, vPair,
                   vScan, vStream>>

\* cli.run before the try block: tempfile.mkdtemp makes the work directory;
\* when that raises, the exception leaves run and main exits with status 1.
CliStart ==
    /\ pl_entry = "cli"
    /\ pl_pc = "start"
    /\ \/ /\ pl_pc' = "fetch"
          /\ UNCHANGED <<pl_exc, pl_failed, pl_outcome>>
       \/ /\ pl_exc' = "Exception"
          /\ pl_failed' = TRUE
          /\ pl_outcome' = "exit"
          /\ pl_pc' = "done"
    /\ UNCHANGED <<pl_entry, pl_no_frames, pl_has_subs, pl_segments, pl_merged, pl_chunks,
                   pl_calls, pl_queue, pl_unparseable>>
    /\ UNCHANGED <<vChunk, vMerge, vMono, vSelect, vFrames, vRepair, vResults, vSrt, vPair,
                   vScan, vStream>>

\* cli.run, step 1: get_video_info raises, or it returns and binds info;
\* then the line printed with info.duration_str or the making of the output
\* directory may raise in its turn.
CliFetch ==
    /\ pl_entry = "cli"
    /\ pl_pc = "fetch"
    /\ pl_calls' = Append(pl_calls, "get_video_info")
    /\ \/ /\ \E subs \in BOOLEAN : pl_has_subs' = subs
          /\ pl_pc' = "subtitles"
          /\ UNCHANGED <<pl_exc, pl_failed>>
       \/ /\ \E subs \in BOOLEAN : pl_has_subs' = subs
          /\ Raise("Exception")
          /\ pl_failed' = TRUE
       \/ /\ Raise("Exception")
          /\ pl_failed' = TRUE
          /\ UNCHANGED pl_has_subs
    /\ UNCHANGED <<pl_entry, pl_no_frames, pl_segments, pl_merged, pl_chunks, pl_queue,
                   pl_unparseable, pl_outcome>>
    /\ UNCHANGED <<vChunk, vMerge, vMono, vSelect, vFrames, vRepair, vResults, vSrt, vPair,
                   vScan, vStream>>

\* cli.run, step 2, subtitles.
CliSubtitles ==
    /\ pl_entry = "cli"
    /\ pl_pc = "subtitles"
    /\ IF pl_has_subs
       THEN /\ pl_calls' = Append(pl_calls, "download_subtitles")
            /\ \/ /\ \E n \in 0..MaxPipeSegs : pl_segments' = n
                  /\ pl_pc' = "asr"
                  /\ UNCHANGED <<pl_exc, pl_failed>>
               \/ /\ pl_pc' = "asr"
                  /\ UNCHANGED <<pl_segments, pl_exc, pl_failed>>
               \/ /\ Raise("Exception")
                  /\ pl_failed' = TRUE
                  /\ UNCHANGED pl_segments
       ELSE /\ pl_pc' = "asr"
            /\ UNCHANGED <<pl_calls, pl_segments, pl_exc, pl_failed>>
    /\ UNCHANGED <<pl_entry, pl_no_frames, pl_has_subs, pl_merged, pl_chunks, pl_queue,
                   pl_unparseable, pl_outcome>>
    /\ UNCHANGED <<vChunk, vMerge, vMono, vSelect, vFrames, vRepair, vResults, vSrt, vPair,
                   vScan, vStream>>

\* cli.run, step 2, speech recognition when there are no segments yet.
CliAsr ==
    /\ pl_entry = "cli"
    /\ pl_pc = "asr"
    /\ IF pl_segments = 0
       THEN \/ /\ pl_calls' = pl_calls \o <<"download_audio", "transcribe_audio">>
               /\ \E n \in 0..MaxPipeSegs : pl_segments' = n
               /\ pl_pc' = "merge"
               /\ UNCHANGED <<pl_exc, pl_failed>>
            \/ /\ \E calls \in {<<"download_audio">>,
                                <<"download_audio", "transcribe_audio">>} :
                       pl_calls' = pl_calls \o calls
               /\ Raise("Exception")
               /\ pl_failed' = TRUE
               /\ UNCHANGED pl_segments
       ELSE /\ pl_pc' = "merge"
            /\ UNCHANGED <<pl_calls, pl_segments, pl_exc, pl_failed>>
    /\ UNCHANGED <<pl_entry, pl_no_frames, pl_has_subs, pl_merged, pl_chunks, pl_queue,
                   pl_unparseable, pl_outcome>>
    /\ UNCHANGED <<vChunk, vMerge, vMono, vSelect, vFrames, vRepair, vResults, vSrt, vPair,
                   vScan, vStream>>

\* cli.run: with no segments the error is printed and sys.exit(1) raises
\* SystemExit; otherwise merged = merge_segments(segments, merge_window).
CliMerge ==
    /\ pl_entry = "cli"
    /\ pl_pc = "merge"
    /\ IF pl_segments = 0
       THEN /\ Raise("SystemExit")
            /\ UNCHANGED pl_merged
       ELSE /\ \E n \in MergedLengths(pl_segments) : pl_merged' = n
            /\ pl_pc' = "frames"
            /\ UNCHANGED pl_exc
    /\ UNCHANGED <<pl_entry, pl_no_frames, pl_has_subs, pl_segments, pl_chunks, pl_calls,
                   pl_queue, pl_failed, pl_unparseable, pl_outcome>>
    /\ UNCHANGED <<vChunk, vMerge, vMono, vSelect, vFrames, vRepair, vResults, vSrt, vPair,
                   vScan, vStream>>

\* cli.run, step 3: key frames, then analyze is called.
CliFrames ==
    /\ pl_entry = "cli"
    /\ pl_pc = "frames"
    /\ IF pl_no_frames
       THEN /\ pl_pc' = "analyze_enter"
            /\ UNCHANGED <<pl_calls, pl_exc, pl_failed>>
       ELSE \/ /\ pl_calls' = pl_calls \o <<"download_video", "extract_frames">>
               /\ pl_pc' = "analyze_enter"
               /\ UNCHANGED <<pl_exc, pl_failed>>
            \/ /\ \E calls \in {<<"download_video">>,
                                <<"download_video", "extract_frames">>} :
                       pl_calls' = pl_calls \o calls
               /\ pl_failed' = TRUE
               /\ \/ /\ pl_pc' = "analyze_enter"
                     /\ UNCHANGED pl_exc
                  \/ Raise("Exception")
    /\ UNCHANGED <<pl_entry, pl_no_frames, pl_has_subs, pl_segments, pl_merged, pl_chunks,
                   pl_queue, pl_unparseable, pl_outcome>>
    /\ UNCHANGED <<vChunk, vMerge, vMono, vSelect, vFrames, vRepair, vResults, vSrt, vPair,
                   vScan, vStream>>

\* cli.run after analyze returned: the message reads summary.key_points
\* (AttributeError unless Summary has the field), then the report is saved
\* and out_dir is returned.
CliReport ==
    /\ pl_entry = "cli"
    /\ pl_pc = "report"
    /\ IF "key_points" \in SummaryFields
       THEN \/ /\ pl_calls' = pl_calls \o <<"save_markdown", "save_json">>
               /\ pl_pc' = "handler"
               /\ UNCHANGED <<pl_exc, pl_failed>>
            \/ /\ \E calls \in {<<"save_markdown">>, <<"save_markdown", "save_json">>} :
                       pl_calls' = pl_calls \o calls
               /\ Raise("Exception")
               /\ pl_failed' = TRUE
       ELSE /\ Raise("AttributeError")
            /\ UNCHANGED <<pl_calls, pl_failed>>
    /\ UNCHANGED <<pl_entry, pl_no_frames, pl_has_subs, pl_segments, pl_merged, pl_chunks,
                   pl_queue, pl_unparseable, pl_outcome>>
    /\ UNCHANGED <<vChunk, vMerge, vMono, vSelect, vFrames, vRepair, vResults, vSrt, vPair,
                   vScan, vStream>>

\* cli.run, finally, and cli.main: run returns out_dir, or the exception
\* leaves run and main exits with status 1.
CliHandler ==
    /\ pl_entry = "cli"
    /\ pl_pc = "handler"
    /\ pl_outcome' = IF pl_exc # "" THEN "exit" ELSE "returned"
    /\ pl_pc' = "done"
    /\ UNCHANGED <<pl_entry, pl_no_frames, pl_has_subs, pl_segments, pl_merged, pl_chunks,
                   pl_calls, pl_queue, pl_exc, pl_failed, pl_unparseable>>
    /\ UNCHANGED <<vChunk, vMerge, vMono, vSelect, vFrames, vRepair, vResults, vSrt, vPair,
                   vScan, vStream>>

NextServer ==
    \/ ServerStart
    \/ ServerFetch
    \/ ServerFetchDone
    \/ ServerSubtitles
    \/ ServerSubtitlesDone
    \/ ServerAsr
    \/ ServerAsrAudio
    \/ ServerAsrDone
    \/ ServerMerge
    \/ ServerFrames
    \/ ServerFramesVideo
    \/ ServerFramesDone
    \/ ServerAnalyze
    \/ AnalyzeEnter
    \/ AnalyzeChunk
    \/ AnalyzeReturn
    \/ ServerReport
    \/ ServerExcept
    \/ ServerFinally

NextPipeline ==
    \/ NextServer
    \/ CliStart
    \/ CliFetch
    \/ CliSubtitles
    \/ CliAsr
    \/ CliMerge
    \/ CliFrames
    \/ CliReport
    \/ CliHandler

SpecPipeline == InitPipeline /\ [][NextPipeline]_vars

\* The run ended in a failure: the error exit of the CLI, the 'error' event
\* of the server.
RunFailed == pl_pc = "done" /\ pl_outcome \in {"exit", "error"}

\* The run delivered the summary: cli.run returned the output directory, the
\* server emitted the 'result' event.
RunDelivered == pl_pc = "done" /\ pl_outcome \in {"returned", "result"}

\* transcribe_audio was called and returned.  The server puts the 'done'
\* event of the transcript as soon as it returns; in the CLI, which stops
\* on an empty transcript with SystemExit, an exception after the call and
\* before any segment was merged is the call's own.
AsrReturned ==
    /\ \E i \in 1..Len(pl_calls) : pl_calls[i] = "transcribe_audio"
    /\ IF pl_entry = "server"
       THEN LET transcript == SelectSeq(pl_queue, LAMBDA e : e.type = "step"
                                                            /\ e.step = "transcript")
            IN  /\ transcript # <<>>
                /\ transcript[Len(transcript)].status = "done"
       ELSE ~(/\ pl_calls[Len(pl_calls)] = "transcribe_audio"
              /\ pl_exc = "Exception"
              /\ pl_merged = 0)

\* The subtitle path and speech recognition have both left the transcript
\* empty.
EmptyTranscript == AsrReturned /\ pl_segments = 0

\* A request was made to the content-analysis collaborator.
AnalysisCalled == \E i \in 1..Len(pl_calls) : pl_calls[i] \in {"analysis", "diagram"}

\* An analysis response was of no use: it did not parse, or it parsed to
\* something of another shape than an object with a list of chapters.
ResponseRejected == pl_unparseable \/ pl_exc = "ShapeError"

\* C22: a run fails on its own account only when the transcript is empty or
\* an analysis response is of no use; with a transcript, usable responses
\* and collaborators that all succeed it delivers the summary.
C22_FailsOnlyOnEmptyOrUnparseable ==
    /\ (RunFailed /\ ~pl_failed) => (pl_segments = 0 \/ ResponseRejected)
    /\ (pl_pc = "done" /\ pl_segments > 0 /\ ~ResponseRejected /\ ~pl_failed) => RunDelivered

\* C23: once the transcript is known to be empty no request goes to the
\* content-analysis collaborator, the diagram request included, and the run
\* ends in a failure.
C23_EmptyTranscriptStops ==
    EmptyTranscript =>
        /\ ~AnalysisCalled
        /\ pl_pc \in {"merge", "handler", "finally", "done"}
        /\ pl_pc = "done" => RunFailed

\* The positions of the terminal events on the queue.
TerminalAt == {i \in 1..Len(pl_queue) : pl_queue[i].type \in {"result", "error"}}

\* Every 'done' step event comes after an 'active' one of the same stage.
DoneAfterActive ==
    \A i \in 1..Len(pl_queue) :
        (pl_queue[i].type = "step" /\ pl_queue[i].status = "done") =>
            \E j \in 1..(i - 1) : pl_queue[j] = StepEvent(pl_queue[i].step, "active")

\* C28: a server job puts at most one terminal event, the sentinel only at
\* the end of the queue and only when the job is over, and every 'done' after
\* an 'active' of its stage; when the job is over the queue ends with exactly
\* one terminal event followed by the sentinel.
C28_EventProtocol ==
    pl_entry = "server" =>
        /\ Cardinality(TerminalAt) <= 1
        /\ \A i \in 1..Len(pl_queue) :
               pl_queue[i] = Sentinel => (i = Len(pl_queue) /\ pl_pc = "done")
        /\ DoneAfterActive
        /\ pl_pc = "done" =>
               /\ Len(pl_queue) >= 2
               /\ pl_queue[Len(pl_queue)] = Sentinel
               /\ TerminalAt = {Len(pl_queue) - 1}

\* ---------------------------------------------------------------------
\* The event stream: server.api_stream
\* ---------------------------------------------------------------------
\* api_analyze has registered the job's queue in _jobs and started the
\* pipeline thread; stream requests for the job id arrive at any time, each
\* served by its own thread running the generator.

\* Bound of the stream: the number of stream requests for the job.
NumStreams == 2

Streams == 1..NumStreams

\* The job id api_analyze returned.
JobId == "job"

\* What the generator yields for the sentinel, and for an unknown job.
DoneEvent == Event("done", "", "")

NotFoundEvent == Event("error", "Job not found", "")

InitStream ==
    /\ ChunkIdle
    /\ MergeIdle
    /\ MonoIdle
    /\ SelectIdle
    /\ FramesIdle
    /\ RepairIdle
    /\ ResultsIdle
    /\ SrtIdle
    /\ PairIdle
    /\ ScanIdle
    /\ pl_entry = "server"
    /\ pl_no_frames \in BOOLEAN
    /\ pl_has_subs = FALSE
    /\ pl_segments = 0
    /\ pl_merged = 0
    /\ pl_chunks = 0
    /\ pl_calls = <<>>
    /\ pl_queue = <<>>
    /\ pl_exc = ""
    /\ pl_failed = FALSE
    /\ pl_unparseable = FALSE
    /\ pl_outcome = ""
    /\ pl_pc = "start"
    /\ st_jobs = {JobId}
    /\ st_q = [c \in Streams |-> "None"]
    /\ st_sent = [c \in Streams |-> <<>>]
    /\ st_pc = [c \in Streams |-> "request"]

\* generate, up to the loop: q = _jobs.get(job_id); without a queue the
\* error is yielded and the generator returns.
StreamOpen(c) ==
    /\ st_pc[c] = "request"
    /\ IF JobId \in st_jobs
       THEN /\ st_q' = [st_q EXCEPT ![c] = "queue"]
            /\ st_pc' = [st_pc EXCEPT ![c] = "waiting"]
            /\ UNCHANGED st_sent
       ELSE /\ st_sent' = [st_sent EXCEPT ![c] = Append(@, NotFoundEvent)]
            /\ st_pc' = [st_pc EXCEPT ![c] = "closed"]
            /\ UNCHANGED st_q
    /\ UNCHANGED st_jobs
    /\ UNCHANGED vPipe
    /\ UNCHANGED <<vChunk, vMerge, vMono, vSelect, vFrames, vRepair, vResults, vSrt, vPair,
                   vScan>>

\* generate, one turn of the loop: q.get() blocks until the queue holds an
\* item and takes it; the sentinel is answered with 'done' and ends the
\* loop, any other item is yielded.
StreamGet(c) ==
    /\ st_pc[c] = "waiting"
    /\ st_q[c] = "queue"
    /\ pl_queue # <<>>
    /\ pl_queue' = Tail(pl_queue)
    /\ IF Head(pl_queue) = Sentinel
       THEN /\ st_sent' = [st_sent EXCEPT ![c] = Append(@, DoneEvent)]
            /\ st_pc' = [st_pc EXCEPT ![c] = "popping"]
       ELSE /\ st_sent' = [st_sent EXCEPT ![c] = Append(@, Head(pl_queue))]
            /\ UNCHANGED st_pc
    /\ UNCHANGED <<st_jobs, st_q>>
    /\ UNCHANGED <<pl_entry, pl_no_frames, pl_has_subs, pl_segments, pl_merged, pl_chunks,
                   pl_calls, pl_exc, pl_failed, pl_unparseable, pl_outcome, pl_pc>>
    /\ UNCHANGED <<vChunk, vMerge, vMono, vSelect, vFrames, vRepair, vResults, vSrt, vPair,
                   vScan>>

\* generate, after the loop: _jobs.pop(job_id, None).
StreamPop(c) ==
    /\ st_pc[c] = "popping"
    /\ st_jobs' = st_jobs \ {JobId}
    /\ st_pc' = [st_pc EXCEPT ![c] = "closed"]
    /\ UNCHANGED <<st_q, st_sent>>
    /\ UNCHANGED vPipe
    /\ UNCHANGED <<vChunk, vMerge, vMono, vSelect, vFrames, vRepair, vResults, vSrt, vPair,
                   vScan>>

StreamStep(c) == StreamOpen(c) \/ StreamGet(c) \/ StreamPop(c)

NextStream ==
    \/ NextServer
    \/ \E c \in Streams : StreamOpen(c)
    \/ \E c \in Streams : StreamGet(c)
    \/ \E c \in Streams : StreamPop(c)

\* The pipeline thread and the thread of each stream request keep running
\* while they have a step to take.
SpecStream ==
    /\ InitStream
    /\ [][NextStream]_vars
    /\ WF_vars(NextServer)
    /\ \A c \in Streams : WF_vars(StreamStep(c))

\* The stream request has yielded 'done' and its generator is over.
StreamEnded(c) ==
    /\ st_pc[c] = "closed"
    /\ Len(st_sent[c]) > 0
    /\ st_sent[c][Len(st_sent[c])] = DoneEvent

\* The pipeline thread ended before its try block, with nothing put.
ThreadDied == pl_outcome = "died"

\* C29: every stream request that found the job registered eventually
\* yields 'done' and ends, however many requests the job has, the jobs
\* whose thread ended before its try block left aside.
C29_EveryStreamEnds ==
    \A c \in Streams : [](st_q[c] = "queue" => <>(StreamEnded(c) \/ ThreadDied))

====
